---- MODULE Spec2Model ----
(***************************************************************************)
(* BrainPlay: the score engine (src/score.py) as a state machine.           *)
(*                                                                          *)
(* A ScoreManager instance is a record of its fields; the per-player score  *)
(* files under data/ are the store.  Every public method is one action,     *)
(* including the achievement evaluation and the save it ends with.          *)
(*                                                                          *)
(* Not modelled: the datetime values (_game_start_time, each history        *)
(* record's 'timestamp', 'last_updated').  No decision of score.py reads    *)
(* them.  Log lines and the printed achievement notices are not state.      *)
(***************************************************************************)
EXTENDS Integers, Sequences, FiniteSets, TLC

VARIABLES
    mgr,      \* instance slot -> << >> (no object) or <<the ScoreManager's fields>>
    store,    \* score file -> << >> (no file) or <<the file's content>>
    lastOp,   \* the call that made the last step: operation, argument, how it ended
    passed,   \* per instance: the deltas add_points accepted since construction or reset
    origin,   \* per instance: "none", "fresh", "loaded" (from a stored record), "reset"
    frame,    \* the add_points call followed statement by statement, and what it started from
    game,     \* the BrainPlayGame of src/main.py: where it waits, its player, its sessions
    quiz,     \* src/questions.py: the factory, a generator, the question asked, the last call
    registry, \* the SessionManager of src/session.py: players, active and stored sessions
    util      \* src/utils: the game_session blocks run, and a call through retry

vars == <<mgr, store, lastOp, passed, origin, frame, game, quiz, registry, util>>

(***************************************************************************)
(* Bounds of the model                                                      *)
(***************************************************************************)
\* rounds a manager records in the lifecycle specification
MaxRounds == 4
\* rounds a manager records in the long-game specification
MaxLong == 7
\* rounds each of the two managers records in the two-player specification
MaxPair == 7
\* rounds a manager records when it starts over a file it did not write
MaxStored == 2
\* rounds a manager records against a store whose writes may fail
MaxFaulty == 3
\* rounds a manager records when add_points is followed statement by statement
MaxInterrupt == 2
\* rounds the manager records in the specification of the accuracy achievements
MaxSharp == 11
\* rounds each manager records in the specification of managers side by side
MaxPlayers == 1
\* games a player starts, and rounds answered in one game
MaxGames == 2
MaxGameRounds == 7
\* games and answered rounds of a game where the text typed is followed
MaxTypedGames == 1
MaxTypedRounds == 4

(***************************************************************************)
(* Python values that reach add_points and the constructor                  *)
(***************************************************************************)
PyInt(n) == [type |-> "int", n |-> n]
\* bool is a subclass of int: True is 1 in arithmetic and comparisons
PyTrue == [type |-> "bool", n |-> 1]
\* a float, as its integral part n and its first decimal
PyFloat(n, tenths) == [type |-> "float", n |-> n, tenths |-> tenths]
PyStr(s) == [type |-> "str", s |-> s]
PyNone == [type |-> "NoneType"]

\* isinstance(points, (int, float))
isinstance_number(v) == v.type \in {"int", "bool", "float"}

\* isinstance(points, int)
isinstance_int(v) == v.type \in {"int", "bool"}

\* the number an int (or bool) stands for in += and in > 0
IntValue(v) == v.n

RECURSIVE SumValues(_)
SumValues(s) == IF s = << >> THEN 0 ELSE IntValue(Head(s)) + SumValues(Tail(s))

(***************************************************************************)
(* Achievement thresholds                                                   *)
(***************************************************************************)
FirstPointsScore == 10
\* a Half Century at four times the First Points score
HalfCenturyAtForty == 4 * FirstPointsScore
HalfCenturyScore == 50
CenturyScore == 100
PerfectStartRounds == 5
SharpShooterRounds == 10
SharpShooterAccuracy == 90
StreakLength == 5

(***************************************************************************)
(* ScoreManager                                                             *)
(***************************************************************************)
NoManager == << >>
NoFile == << >>

\* self.player_id = player_id or "default": None and "" are falsy
DefaultPlayer(arg) ==
    IF arg.type = "NoneType" \/ (arg.type = "str" /\ arg.s = "")
    THEN "default"
    ELSE arg.s

\* Path("data/score.json"): one file for every player
ScoreFileShared(player_id) == [dir |-> "data", name |-> <<"score", ".json">>]

\* Path(f"data/score_{self.player_id}.json")
ScoreFile(player_id) == [dir |-> "data", name |-> <<"score_", player_id, ".json">>]

\* the fields __init__ sets before it loads
NewManager(player_id) ==
    [ player_id       |-> player_id,
      score           |-> 0,
      round_count     |-> 0,
      correct_answers |-> 0,
      wrong_answers   |-> 0,
      score_history   |-> << >>,
      achievements    |-> << >>,
      score_file      |-> ScoreFile(player_id) ]

\* the accuracy property as correct / total, without the * 100
accuracy_as_fraction(m) ==
    LET total == m.correct_answers + m.wrong_answers
    IN  IF total = 0
        THEN [num |-> 0, den |-> 1]
        ELSE [num |-> m.correct_answers, den |-> total]

\* the accuracy property, as the exact fraction num/den (0/1 when no round was
\* played).  The float (correct / total) * 100 compares to 100 and to 90 as this
\* fraction does for every total below 2^53.
accuracy(m) ==
    LET total == m.correct_answers + m.wrong_answers
    IN  IF total = 0
        THEN [num |-> 0, den |-> 1]
        ELSE [num |-> m.correct_answers * 100, den |-> total]

AccuracyEq(m, pct) == accuracy(m).num = pct * accuracy(m).den
\* self.accuracy > pct
AccuracyAbove(m, pct) == accuracy(m).num > pct * accuracy(m).den
\* self.accuracy >= pct
AccuracyGe(m, pct) == accuracy(m).num >= pct * accuracy(m).den

\* round(self.accuracy, 2) of get_statistics, in hundredths of a percent: the
\* nearest hundredth, a tie going to the even one.  The float rounds as this
\* exact fraction does for every total below 160.
RoundedAccuracy(m) ==
    LET num == accuracy(m).num * 100
        den == accuracy(m).den
        q == num \div den
        r == num % den
    IN  IF 2 * r > den THEN q + 1
        ELSE IF 2 * r < den THEN q
        ELSE IF q % 2 = 0 THEN q ELSE q + 1

\* self._round_count > rounds
RoundsAbove(m, rounds) == m.round_count > rounds
\* self._round_count >= rounds
RoundsReached(m, rounds) == m.round_count >= rounds

\* x in list
InList(x, list) == \E k \in 1..Len(list) : list[k] = x

\* self._score_history[:5]
FirstFive(history) ==
    IF Len(history) <= StreakLength THEN history ELSE SubSeq(history, 1, StreakLength)

\* self._score_history[-5:]
LastFive(history) ==
    IF Len(history) <= StreakLength
    THEN history
    ELSE SubSeq(history, Len(history) - StreakLength + 1, Len(history))

\* self._score > threshold
ScoreAbove(m, threshold) == m.score > threshold

\* self._score >= threshold
ScoreReached(m, threshold) == m.score >= threshold

\* no test of the list before the append
NotHeldUnchecked(a, m) == TRUE

\* a not in self._achievements
NotHeld(a, m) == ~InList(a, m.achievements)

\* the new_achievements list _check_achievements builds, in the order of its tests
NewAchievements(m) ==
    LET pick(cond, a) == IF cond /\ NotHeld(a, m) THEN <<a>> ELSE << >>
    IN  pick(ScoreReached(m, FirstPointsScore), "First Points")
        \o pick(ScoreReached(m, HalfCenturyScore), "Half Century")
        \o pick(ScoreReached(m, CenturyScore), "Century")
        \o pick(RoundsReached(m, PerfectStartRounds) /\ AccuracyEq(m, 100), "Perfect Start")
        \o pick(RoundsReached(m, SharpShooterRounds) /\ AccuracyGe(m, SharpShooterAccuracy),
                "Sharp Shooter")
        \o pick(/\ Len(m.score_history) >= StreakLength
                /\ \A k \in 1..Len(LastFive(m.score_history)) :
                      IntValue(LastFive(m.score_history)[k].points_added) > 0,
                "Hot Streak")

\* _check_achievements: append what is new
check_achievements(m) ==
    [m EXCEPT !.achievements = m.achievements \o NewAchievements(m)]

\* max(0, self._score + points)
NewScoreFloored(m, points) ==
    IF m.score + IntValue(points) < 0 THEN 0 ELSE m.score + IntValue(points)

\* self._score += points
NewScore(m, points) == m.score + IntValue(points)

\* points >= 0
IsCorrectOrZero(points) == IntValue(points) >= 0

\* points > 0
IsCorrect(points) == IntValue(points) > 0

\* add_points whose record counts the rounds from 0
AddPointsToFromZero(m, points) ==
    LET new_score == NewScore(m, points)
        change    == [ round        |-> m.round_count,
                       points_added |-> points,
                       old_score    |-> m.score,
                       new_score    |-> new_score ]
        counted   == IF IsCorrect(points)
                     THEN [m EXCEPT !.correct_answers = m.correct_answers + 1]
                     ELSE [m EXCEPT !.wrong_answers = m.wrong_answers + 1]
    IN  check_achievements(
            [counted EXCEPT !.score = new_score,
                            !.round_count = m.round_count + 1,
                            !.score_history = Append(m.score_history, change)])

\* add_points, lines 78-99: the in-memory update of an accepted delta
AddPointsTo(m, points) ==
    LET old_score == m.score
        new_score == NewScore(m, points)
        round     == m.round_count + 1
        change    == [ round        |-> round,
                       points_added |-> points,
                       old_score    |-> old_score,
                       new_score    |-> new_score ]
        counted   == IF IsCorrect(points)
                     THEN [m EXCEPT !.correct_answers = m.correct_answers + 1]
                     ELSE [m EXCEPT !.wrong_answers = m.wrong_answers + 1]
    IN  check_achievements(
            [counted EXCEPT !.score = new_score,
                            !.round_count = round,
                            !.score_history = Append(m.score_history, change)])

\* get_score
get_score(m) == m.score

\* reset_score without self._achievements.clear()
ResetKeepingAchievements(m) ==
    [m EXCEPT !.score = 0,
              !.round_count = 0,
              !.correct_answers = 0,
              !.wrong_answers = 0,
              !.score_history = << >>]

\* reset_score, lines 116-122
ResetOf(m) ==
    [m EXCEPT !.score = 0,
              !.round_count = 0,
              !.correct_answers = 0,
              !.wrong_answers = 0,
              !.score_history = << >>,
              !.achievements = << >>]

(***************************************************************************)
(* The store: json.dump and json.load of the score record                   *)
(***************************************************************************)
\* an int is written as a JSON number, a bool as true / false
JsonOfValue(v) ==
    IF v.type = "bool"
    THEN [json |-> IF v.n = 1 THEN "true" ELSE "false"]
    ELSE [json |-> "number", n |-> v.n]

ValueOfJson(j) ==
    IF j.json = "number" THEN PyInt(j.n)
    ELSE [type |-> "bool", n |-> IF j.json = "true" THEN 1 ELSE 0]

JsonOfChange(c) == [c EXCEPT !.points_added = JsonOfValue(c.points_added)]
ChangeOfJson(c) == [c EXCEPT !.points_added = ValueOfJson(c.points_added)]

\* score_data without its 'achievements' entry
score_data_without_achievements(m) ==
    [ player_id       |-> m.player_id,
      score           |-> m.score,
      round_count     |-> m.round_count,
      correct_answers |-> m.correct_answers,
      wrong_answers   |-> m.wrong_answers,
      score_history   |-> [k \in 1..Len(m.score_history) |-> JsonOfChange(m.score_history[k])] ]

\* the score_data dict of _save_score, as json.dump writes it
score_data(m) ==
    [ player_id       |-> m.player_id,
      score           |-> m.score,
      round_count     |-> m.round_count,
      correct_answers |-> m.correct_answers,
      wrong_answers   |-> m.wrong_answers,
      score_history   |-> [k \in 1..Len(m.score_history) |-> JsonOfChange(m.score_history[k])],
      achievements    |-> m.achievements ]

\* dict.get(key, default) on a loaded JSON object
Get(data, key, default) == IF key \in DOMAIN data THEN data[key] ELSE default

\* _save_score: open(file, 'w') and json.dump.  io is what the store does:
\* "written", "open_failed" (the file is left as it was, the error is logged) or
\* "dump_failed" (the file was truncated by open and holds no complete JSON text).
save_score(m, files, io) ==
    CASE io = "written"     -> [files EXCEPT ![m.score_file] = <<[text |-> "json", data |-> score_data(m)]>>]
      [] io = "open_failed" -> files
      [] io = "dump_failed" -> [files EXCEPT ![m.score_file] = <<[text |-> "truncated"]>>]

\* the test of _load_score without the comparison of player ids
StoredForAnyPlayer(m, files) ==
    /\ files[m.score_file] # NoFile
    /\ files[m.score_file][1].text = "json"

\* whether _load_score applies the stored record: the file exists, parses, and
\* carries this manager's player_id
StoredFor(m, files) ==
    /\ files[m.score_file] # NoFile
    /\ files[m.score_file][1].text = "json"
    /\ Get(files[m.score_file][1].data, "player_id", "") = m.player_id

\* _load_score that does not read 'score_history'
load_score_without_history(m, files) ==
    IF ~StoredFor(m, files)
    THEN m
    ELSE LET data == files[m.score_file][1].data
         IN  [m EXCEPT !.score = Get(data, "score", 0),
                       !.round_count = Get(data, "round_count", 0),
                       !.correct_answers = Get(data, "correct_answers", 0),
                       !.wrong_answers = Get(data, "wrong_answers", 0),
                       !.achievements = Get(data, "achievements", << >>)]

\* _load_score: a missing file, a parse error or another player's record leave the
\* defaults
load_score(m, files) ==
    IF ~StoredFor(m, files)
    THEN m
    ELSE LET data == files[m.score_file][1].data
             history == Get(data, "score_history", << >>)
         IN  [m EXCEPT !.score = Get(data, "score", 0),
                       !.round_count = Get(data, "round_count", 0),
                       !.correct_answers = Get(data, "correct_answers", 0),
                       !.wrong_answers = Get(data, "wrong_answers", 0),
                       !.score_history = [k \in 1..Len(history) |-> ChangeOfJson(history[k])],
                       !.achievements = Get(data, "achievements", << >>)]

(***************************************************************************)
(* Operations                                                               *)
(***************************************************************************)
\* what the last step called: the operation, the instance, the argument, how the
\* call ended, the score it started from (the score its log line reports), and
\* what the store did with the call's one write ("none": the call writes nothing)
Call(op, i, arg, result, old_score) ==
    [op |-> op, inst |-> i, arg |-> arg, result |-> result, old_score |-> old_score,
     io |-> "none"]

\* ScoreManager(player_id) in slot i
Construct(i, arg) ==
    /\ mgr[i] = NoManager
    /\ LET fresh == NewManager(DefaultPlayer(arg))
       IN  /\ mgr' = [mgr EXCEPT ![i] = <<load_score(fresh, store)>>]
           /\ origin' = [origin EXCEPT ![i] = IF StoredFor(fresh, store) THEN "loaded" ELSE "fresh"]
    /\ passed' = [passed EXCEPT ![i] = << >>]
    /\ lastOp' = Call("construct", i, arg, "ok", 0)
    /\ UNCHANGED store

\* add_points with _score a class attribute, one number shared by every instance
add_points_shared_score(i, points, io) ==
    /\ mgr[i] # NoManager
    /\ IF ~isinstance_int(points)
       THEN /\ lastOp' = Call("add_points", i, points, "TypeError", mgr[i][1].score)
            /\ UNCHANGED <<mgr, store, passed, origin>>
       ELSE LET m == AddPointsTo(mgr[i][1], points)
            IN  /\ mgr' = [k \in DOMAIN mgr |->
                              IF k = i THEN <<m>>
                              ELSE IF mgr[k] = NoManager THEN NoManager
                              ELSE <<[mgr[k][1] EXCEPT !.score = m.score]>>]
                /\ store' = save_score(m, store, io)
                /\ passed' = [passed EXCEPT ![i] = Append(passed[i], points)]
                /\ lastOp' = [Call("add_points", i, points, "ok", mgr[i][1].score)
                                 EXCEPT !.io = io]
                /\ UNCHANGED origin

\* add_points whose _save_score has no try / except: the error of a failed write
\* reaches the caller
add_points_unabsorbed(i, points, io) ==
    /\ mgr[i] # NoManager
    /\ IF ~isinstance_int(points)
       THEN /\ lastOp' = Call("add_points", i, points, "TypeError", mgr[i][1].score)
            /\ UNCHANGED <<mgr, store, passed, origin>>
       ELSE LET m == AddPointsTo(mgr[i][1], points)
            IN  /\ mgr' = [mgr EXCEPT ![i] = <<m>>]
                /\ store' = save_score(m, store, io)
                /\ passed' = [passed EXCEPT ![i] = Append(passed[i], points)]
                /\ lastOp' = [Call("add_points", i, points,
                                   IF io = "written" THEN "ok" ELSE "OSError",
                                   mgr[i][1].score)
                                 EXCEPT !.io = io]
                /\ UNCHANGED origin

\* add_points(points) on the manager in slot i
add_points(i, points, io) ==
    /\ mgr[i] # NoManager
    /\ IF ~isinstance_int(points)
       THEN /\ lastOp' = Call("add_points", i, points, "TypeError", mgr[i][1].score)
            /\ UNCHANGED <<mgr, store, passed, origin>>
       ELSE LET m == AddPointsTo(mgr[i][1], points)
            IN  /\ mgr' = [mgr EXCEPT ![i] = <<m>>]
                /\ store' = save_score(m, store, io)
                /\ passed' = [passed EXCEPT ![i] = Append(passed[i], points)]
                /\ lastOp' = [Call("add_points", i, points, "ok", mgr[i][1].score)
                                 EXCEPT !.io = io]
                /\ UNCHANGED origin

\* reset_score() on the manager in slot i
reset_score(i, io) ==
    /\ mgr[i] # NoManager
    /\ LET m == ResetOf(mgr[i][1])
       IN  /\ mgr' = [mgr EXCEPT ![i] = <<m>>]
           /\ store' = save_score(m, store, io)
    /\ passed' = [passed EXCEPT ![i] = << >>]
    /\ origin' = [origin EXCEPT ![i] = "reset"]
    /\ lastOp' = [Call("reset_score", i, PyNone, "ok", mgr[i][1].score) EXCEPT !.io = io]

\* the manager in slot i is dropped (its game or its process ends); its file stays
Exit(i) ==
    /\ mgr[i] # NoManager
    /\ mgr' = [mgr EXCEPT ![i] = NoManager]
    /\ passed' = [passed EXCEPT ![i] = << >>]
    /\ origin' = [origin EXCEPT ![i] = "none"]
    /\ lastOp' = Call("exit", i, PyNone, "ok", 0)
    /\ UNCHANGED store

(***************************************************************************)
(* src/questions.py: answers, generators and the factory                    *)
(*                                                                          *)
(* A str is the sequence of its characters.  A question's text is kept as   *)
(* the parts the f-string is made of: which question it asks, about which   *)
(* number, and the hint line if there is one.                               *)
(***************************************************************************)
Chars(s) == [type |-> "str", chars |-> s]

DigitChars == <<"0", "1", "2", "3", "4", "5", "6", "7", "8", "9">>
IsDigit(c) == \E k \in 1..10 : DigitChars[k] = c
DigitOf(c) == (CHOOSE k \in 1..10 : DigitChars[k] = c) - 1
Whitespace == {" ", "\t", "\n"}

\* str.strip(): leading and trailing whitespace removed
RECURSIVE lstrip(_)
lstrip(s) == IF s # << >> /\ Head(s) \in Whitespace THEN lstrip(Tail(s)) ELSE s
RECURSIVE rstrip(_)
rstrip(s) ==
    IF s # << >> /\ s[Len(s)] \in Whitespace THEN rstrip(SubSeq(s, 1, Len(s) - 1)) ELSE s
strip(s) == rstrip(lstrip(s))

\* str.lower(), on the letters the model's strings are written with
UpperCase == <<"A", "E", "F", "I", "N", "P", "Q", "R", "S", "T", "U", "X">>
LowerCase == <<"a", "e", "f", "i", "n", "p", "q", "r", "s", "t", "u", "x">>
LowerChar(c) ==
    IF \E k \in 1..Len(UpperCase) : UpperCase[k] = c
    THEN LowerCase[CHOOSE k \in 1..Len(UpperCase) : UpperCase[k] = c]
    ELSE c
lower(s) == [k \in 1..Len(s) |-> LowerChar(s[k])]

\* str(n) of an int: its decimal digits, '-' first when negative
RECURSIVE NatDigits(_)
NatDigits(n) ==
    IF n < 10 THEN <<DigitChars[n + 1]>> ELSE Append(NatDigits(n \div 10), DigitChars[(n % 10) + 1])
\* the digits of an int, the last one first
py_str_reversed(n) ==
    LET d == NatDigits(IF n < 0 THEN 0 - n ELSE n) IN [k \in 1..Len(d) |-> d[Len(d) + 1 - k]]

py_str(n) == IF n < 0 THEN <<"-">> \o NatDigits(0 - n) ELSE NatDigits(n)

\* the number a run of digits writes
RECURSIVE DigitsValue(_)
DigitsValue(s) ==
    IF s = << >> THEN 0 ELSE 10 * DigitsValue(SubSeq(s, 1, Len(s) - 1)) + DigitOf(s[Len(s)])

AllDigits(s) == \A k \in 1..Len(s) : IsDigit(s[k])
Pow10(k) == IF k = 0 THEN 1 ELSE IF k = 1 THEN 10 ELSE IF k = 2 THEN 100 ELSE 1000

\* a float is kept in thousandths; inf and nan are values of their own
Finite(milli) == [kind |-> "finite", milli |-> milli]
FloatError == [kind |-> "ValueError"]

\* float(s) of a str, for the forms [ws][sign]digits[.digits][ws],
\* [ws][sign].digits[ws], and inf, infinity, nan in any case; a str of no such
\* form raises ValueError.  float() reads exponents and underscores too, and
\* more than three decimals: strings of those forms are not among the inputs.
float_unsigned(s) ==
    IF lower(s) \in {<<"i", "n", "f">>, <<"i", "n", "f", "i", "n", "i", "t", "y">>}
    THEN [kind |-> "inf"]
    ELSE IF lower(s) = <<"n", "a", "n">> THEN [kind |-> "nan"]
    ELSE IF \E k \in 1..Len(s) : s[k] = "."
    THEN LET dot  == CHOOSE k \in 1..Len(s) : s[k] = "."
             int  == SubSeq(s, 1, dot - 1)
             frac == SubSeq(s, dot + 1, Len(s))
         IN  IF AllDigits(int) /\ AllDigits(frac) /\ Len(int) + Len(frac) > 0 /\ Len(frac) <= 3
             THEN Finite(DigitsValue(int) * 1000 + DigitsValue(frac) * Pow10(3 - Len(frac)))
             ELSE FloatError
    ELSE IF s # << >> /\ AllDigits(s) THEN Finite(DigitsValue(s) * 1000)
    ELSE FloatError

py_float(user_answer) ==
    LET s == strip(user_answer)
    IN  IF s # << >> /\ Head(s) \in {"+", "-"}
        THEN LET v == float_unsigned(Tail(s))
             IN  IF v.kind = "finite" /\ Head(s) = "-" THEN Finite(0 - v.milli)
                 ELSE IF v.kind = "inf" /\ Head(s) = "-" THEN [kind |-> "-inf"]
                 ELSE v
        ELSE float_unsigned(s)

Abs(x) == IF x < 0 THEN 0 - x ELSE x

\* 0.01, in thousandths
Tolerance == 10

\* a tolerance of a tenth
WithinTenth(user_numeric, answer) ==
    user_numeric.kind = "finite" /\ Abs(user_numeric.milli - answer * 1000) < 100

\* abs(user_numeric - float(self.answer)) < 0.01; every comparison with nan
\* is False, and so is the one with an infinite difference
Within(user_numeric, answer) ==
    user_numeric.kind = "finite" /\ Abs(user_numeric.milli - answer * 1000) < Tolerance

\* the QuestionResult dataclass
QuestionResult(text, answer, question_type, difficulty) ==
    [text |-> text, answer |-> answer, question_type |-> question_type,
     difficulty |-> difficulty]

\* how a call ends: with a value, or with the exception it lets out
Returned(value) == [raised |-> "none", value |-> value]
Raised(error) == [raised |-> error]

\* check_answer with no except clause
check_answer_uncaught(q, user_answer) ==
    IF isinstance_number(q.answer)
    THEN LET user_numeric == py_float(user_answer)
         IN  IF user_numeric.kind = "ValueError" THEN Raised("ValueError")
             ELSE Returned(Within(user_numeric, IntValue(q.answer)))
    ELSE Returned(lower(q.answer.chars) = strip(lower(user_answer)))

\* QuestionResult.check_answer
check_answer(q, user_answer) ==
    IF isinstance_number(q.answer)
    THEN LET user_numeric == py_float(user_answer)
         IN  IF user_numeric.kind = "ValueError" THEN Returned(FALSE)
             ELSE Returned(Within(user_numeric, IntValue(q.answer)))
    ELSE Returned(lower(q.answer.chars) = strip(lower(user_answer)))

Difficulties == {"easy", "normal", "hard"}

\* int(max_val * 0.6) and int(max_val * 1.5): the product, truncated
TimesTenths(max_val, tenths) == (max_val * tenths) \div 10

\* the range scaled by difficulty_multiplier (0.5, 1.0, 1.5)
adjust_by_multiplier(difficulty, base_range) ==
    IF difficulty = "easy" THEN <<base_range[1], TimesTenths(base_range[2], 5)>>
    ELSE IF difficulty = "hard" THEN <<base_range[1], TimesTenths(base_range[2], 15)>>
    ELSE base_range

\* QuestionGenerator._adjust_for_difficulty
adjust_for_difficulty(difficulty, base_range) ==
    LET min_val == base_range[1]
        max_val == base_range[2]
        Least(a, b) == IF a < b THEN a ELSE b
    IN  IF difficulty = "easy" THEN <<min_val, Least(max_val, TimesTenths(max_val, 6))>>
        ELSE IF difficulty = "hard" THEN <<min_val, TimesTenths(max_val, 15)>>
        ELSE base_range

\* the base range of SquareGenerator.generate
SquareBaseRange == <<1, 20>>

\* the numbers random.randint(min_val, max_val) can return
SquareNumbers(difficulty) ==
    LET r == adjust_for_difficulty(difficulty, SquareBaseRange) IN r[1]..r[2]

\* what the request to numbersapi.com can come to: a response with its status
\* and the length of its body, the two-second timeout, a network error
Response(status, length) == [kind |-> "response", status |-> status, length |-> length]
LookupOutcomes ==
    {Response(200, 40), Response(200, 0), Response(200, 101), Response(404, 40),
     [kind |-> "timeout"], [kind |-> "network_error"]}

\* the longest fact shown whole
FactLimit == 100

\* a fact: how many characters of the body it shows, and whether "..." follows
Fact(length) ==
    IF length > FactLimit THEN [shown |-> FactLimit, ellipsis |-> TRUE]
    ELSE [shown |-> length, ellipsis |-> FALSE]

\* the truth value of Optional[str]: None and "" are false
Truthy(fun_fact) == fun_fact # << >> /\ (fun_fact[1].shown > 0 \/ fun_fact[1].ellipsis)

\* _get_number_fact with no except clause
get_number_fact_unabsorbed(number, outcome) ==
    IF outcome.kind = "response"
    THEN IF outcome.status = 200 THEN Returned(<<Fact(outcome.length)>>) ELSE Returned(<< >>)
    ELSE Raised(outcome.kind)

\* SquareGenerator._get_number_fact: the fact, or None (<< >>)
get_number_fact(number, outcome) ==
    IF outcome.kind = "response"
    THEN IF outcome.status = 200 THEN Returned(<<Fact(outcome.length)>>) ELSE Returned(<< >>)
    ELSE Returned(<< >>)

\* the text of a question: what it asks, about which number, the hint line
Text(ask, number, hint) == [ask |-> ask, number |-> number, hint |-> hint]

\* SquareGenerator.generate from line 91 on, for the number drawn and the
\* outcome of the lookup
SquareGenerate(difficulty, base_number, outcome) ==
    LET square_result == base_number * base_number
        fun_fact == get_number_fact(base_number, outcome)
    IN  IF fun_fact.raised # "none" THEN fun_fact
        ELSE Returned(QuestionResult(
                 Text("square", base_number,
                      IF Truthy(fun_fact.value) THEN fun_fact.value ELSE << >>),
                 PyInt(square_result), "square", difficulty))

\* the roots of a generator's squares, one short of the easy list
RootLimitShort(difficulty) ==
    IF difficulty = "easy" THEN 9 ELSE IF difficulty = "hard" THEN 100 ELSE 50

\* the last i of range(1, 11), range(1, 101), range(1, 51)
RootLimit(difficulty) ==
    IF difficulty = "easy" THEN 10 ELSE IF difficulty = "hard" THEN 100 ELSE 50

\* SquareRootGenerator._generate_perfect_squares
generate_perfect_squares(difficulty) == [i \in 1..RootLimit(difficulty) |-> i * i]

\* int(math.sqrt(perfect_square)): the largest integer whose square is not
\* above it (math.sqrt is exact on the perfect squares up to 10000)
RECURSIVE SqrtFrom(_, _)
SqrtFrom(x, r) == IF r * r <= x THEN r ELSE SqrtFrom(x, (r + (x \div r)) \div 2)
int_sqrt(x) == IF x = 0 THEN 0 ELSE SqrtFrom(x, x)

\* SquareRootGenerator(difficulty)
NewSquareRootGenerator(difficulty) ==
    [class |-> "SquareRootGenerator", difficulty |-> difficulty,
     perfect_squares |-> generate_perfect_squares(difficulty)]

\* SquareGenerator(difficulty)
NewSquareGenerator(difficulty) ==
    [class |-> "SquareGenerator", difficulty |-> difficulty]

\* SquareRootGenerator.generate, for the square random.choice returned
SquareRootGenerate(generator, perfect_square) ==
    Returned(QuestionResult(Text("square_root", perfect_square, << >>),
                            PyInt(int_sqrt(perfect_square)), "square_root",
                            generator.difficulty))

\* QuestionFactory(): the generator classes and the weights, in tenths
NewFactory ==
    [generators |-> [t \in {"square", "square_root"} |->
                        IF t = "square" THEN "SquareGenerator" ELSE "SquareRootGenerator"],
     question_weights |-> [t \in {"square", "square_root"} |-> 5]]

\* QuestionFactory.get_available_types
get_available_types(factory) == DOMAIN factory.generators

\* the types random.choices can return: those of positive weight
WeightedTypes(factory) ==
    {t \in DOMAIN factory.question_weights : factory.question_weights[t] > 0}

\* the generator constructed with the default difficulty
NewGeneratorNormal(factory, selected_type, difficulty) ==
    IF factory.generators[selected_type] = "SquareGenerator"
    THEN NewSquareGenerator("normal")
    ELSE NewSquareRootGenerator("normal")

\* self.generators[selected_type](difficulty)
NewGenerator(factory, selected_type, difficulty) ==
    IF factory.generators[selected_type] = "SquareGenerator"
    THEN NewSquareGenerator(difficulty)
    ELSE NewSquareRootGenerator(difficulty)

\* what the draws of one generate() call can be: the number, and the lookup
Draws(generator) ==
    IF generator.class = "SquareGenerator"
    THEN {[number |-> n, lookups |-> <<o>>] :
             n \in SquareNumbers(generator.difficulty), o \in LookupOutcomes}
    ELSE {[number |-> generator.perfect_squares[k], lookups |-> << >>] :
             k \in 1..Len(generator.perfect_squares)}

\* generator.generate(), for its draws
Generate(generator, draw) ==
    IF generator.class = "SquareGenerator"
    THEN SquareGenerate(generator.difficulty, draw.number, draw.lookups[1])
    ELSE SquareRootGenerate(generator, draw.number)

\* create_specific_question that falls back on the first type
specific_or_first(factory, question_type) ==
    IF question_type \notin DOMAIN factory.generators THEN Returned("square")
    ELSE Returned(question_type)

\* create_specific_question, lines 217-219: the type, or the ValueError whose
\* message names list(self.generators.keys())
specific_type(factory, question_type) ==
    IF question_type \notin DOMAIN factory.generators
    THEN [raised |-> "ValueError", unknown |-> question_type,
          available |-> get_available_types(factory)]
    ELSE Returned(question_type)

\* the questions side before any call: the factory of BrainPlayGame, no
\* generator held, no question asked
NoCall == [op |-> "none"]
\* the callers of the interleaved calls, and a caller with no call under way
Tasks == {1, 2}
IdleTask == [pc |-> "idle"]
NoQuiz ==
    [factory |-> NewFactory, generator |-> << >>, question |-> << >>,
     call |-> NoCall, tasks |-> [k \in Tasks |-> IdleTask]]

(***************************************************************************)
(* Specifications                                                           *)
(***************************************************************************)
Instances == {1, 2}
Players == {"default", "alice", "bob"}

\* no add_points call is being followed
NoFrame == << >>

\* before any BrainPlayGame: the player's profile as get_or_create_player makes
\* it, no stored session, nothing kept or reset at the end of an earlier game
NoGame ==
    [ pc          |-> "none",
      profile     |-> [total_games |-> 0, total_wins |-> 0, best_score |-> 0],
      sessions    |-> << >>,
      active      |-> FALSE,
      history     |-> << >>,
      start_score |-> 0,
      ending      |-> "none",
      carry       |-> [choice |-> "none", score |-> 0],
      saved       |-> << >> ]

\* a SessionManager over an empty data directory: no player, no session active
\* or stored, no call made
NoRegistry ==
    [ players      |-> << >>,
      players_file |-> << >>,
      active       |-> {},
      stored       |-> << >>,
      now          |-> 0,
      events       |-> << >>,
      call         |-> [op |-> "none"] ]

\* no game_session block entered or left yet, no call through retry
NoUtil ==
    [ blocks |-> << >>,
      now    |-> 0,
      retry  |-> [pc |-> "none"] ]

Files == {ScoreFile(p) : p \in Players}

Live(i) == mgr[i] # NoManager
M(i) == mgr[i][1]

\* the guard that bounds a manager's rounds
RoundsLeft(i, points, max) ==
    isinstance_int(points) => Live(i) /\ M(i).round_count < max

\* a player's state is owned by one running game at a time: a manager is used
\* only while it is the only one
Owner(i) == Live(i) /\ \A j \in Instances \ {i} : ~Live(j)

Init ==
    /\ mgr = [i \in Instances |-> NoManager]
    /\ store = [f \in Files |-> NoFile]
    /\ lastOp = Call("init", 0, PyNone, "ok", 0)
    /\ passed = [i \in Instances |-> << >>]
    /\ origin = [i \in Instances |-> "none"]
    /\ frame = NoFrame
    /\ game = NoGame
    /\ quiz = NoQuiz
    /\ registry = NoRegistry
    /\ util = NoUtil

\* a step of the score engine alone
ScoreOnly == UNCHANGED <<frame, game, quiz, registry, util>>

UseConstruct(args) == \E i \in Instances, arg \in args : Construct(i, arg) /\ ScoreOnly
UseAddPoints(values, max) ==
    \E i \in Instances, points \in values :
        Owner(i) /\ RoundsLeft(i, points, max) /\ add_points(i, points, "written") /\ ScoreOnly
UseReset == \E i \in Instances : Owner(i) /\ reset_score(i, "written") /\ ScoreOnly
UseExit == \E i \in Instances : Exit(i) /\ ScoreOnly

\* Spec: the default player's manager against a working store, given ints, a
\* bool, floats and a string; a second manager for the player may be constructed
\* beside the first, and one of the two is dropped before the other is used
Deltas == {PyInt(10), PyInt(-5), PyInt(0), PyInt(50), PyTrue}
NotInts == {PyStr("5"), PyFloat(10, 5), PyFloat(10, 0)}
DefaultArgs == {PyNone, PyStr(""), PyStr("default")}

Next ==
    \/ UseConstruct(DefaultArgs)
    \/ UseAddPoints(Deltas \cup NotInts, MaxRounds)
    \/ UseReset
    \/ UseExit

Spec == Init /\ [][Next]_vars

\* SpecLong: the same lifecycle with the two deltas the game passes, for longer
GameDeltas == {PyInt(10), PyInt(-5)}

NextLong ==
    \/ UseConstruct({PyNone})
    \/ UseAddPoints(GameDeltas, MaxLong)
    \/ UseReset
    \/ UseExit

SpecLong == Init /\ [][NextLong]_vars

\* SpecPair: two players' managers, each started fresh and driven by add_points
PairConstruct == (Construct(1, PyStr("alice")) \/ Construct(2, PyStr("bob"))) /\ ScoreOnly
PairAddPoints ==
    \E i \in Instances, points \in GameDeltas :
        RoundsLeft(i, points, MaxPair) /\ add_points(i, points, "written") /\ ScoreOnly

NextPair == PairConstruct \/ PairAddPoints

SpecPair == Init /\ [][NextPair]_vars

\* SpecStored: the default player's manager started over a file that an earlier
\* run, another program or a crash left under data/: no file, a text that does not
\* parse, a complete record, the complete record of another player, and records
\* that lack some of their keys
Restrict(data, keys) == [k \in keys |-> data[k]]
RecordKeys == DOMAIN score_data(NewManager("default"))
JsonFile(data) == <<[text |-> "json", data |-> data]>>
TruncatedFile == <<[text |-> "truncated"]>>
AfterOneRound(player_id) == score_data(AddPointsTo(NewManager(player_id), PyInt(10)))

StoredRecords ==
    { NoFile,
      TruncatedFile,
      JsonFile(AfterOneRound("default")),
      JsonFile(AfterOneRound("alice")),
      JsonFile(Restrict(AfterOneRound("default"), {"player_id", "score"})),
      JsonFile(Restrict(AfterOneRound("default"), RecordKeys \ {"score_history"})),
      JsonFile(Restrict(AfterOneRound("default"), RecordKeys \ {"player_id"})) }

InitStored ==
    /\ mgr = [i \in Instances |-> NoManager]
    /\ store \in {[f \in Files |-> IF f = ScoreFile("default") THEN r ELSE NoFile] :
                     r \in StoredRecords}
    /\ lastOp = Call("init", 0, PyNone, "ok", 0)
    /\ passed = [i \in Instances |-> << >>]
    /\ origin = [i \in Instances |-> "none"]
    /\ frame = NoFrame
    /\ game = NoGame
    /\ quiz = NoQuiz
    /\ registry = NoRegistry
    /\ util = NoUtil

NextStored ==
    \/ UseConstruct({PyNone})
    \/ UseAddPoints(GameDeltas, MaxStored)
    \/ UseReset
    \/ UseExit

SpecStored == InitStored /\ [][NextStored]_vars

\* SpecFaulty: the default player's manager against a store whose every write
\* may fail, at open() or inside json.dump
IoOutcomes == {"written", "open_failed", "dump_failed"}

FaultyAddPoints ==
    \E i \in Instances, points \in GameDeltas, io \in IoOutcomes :
        Owner(i) /\ RoundsLeft(i, points, MaxFaulty) /\ add_points(i, points, io) /\ ScoreOnly
FaultyReset ==
    \E i \in Instances, io \in IoOutcomes : Owner(i) /\ reset_score(i, io) /\ ScoreOnly

NextFaulty ==
    \/ UseConstruct({PyNone})
    \/ FaultyAddPoints
    \/ FaultyReset
    \/ UseExit

SpecFaulty == Init /\ [][NextFaulty]_vars

\* SpecInterrupt: add_points followed statement by statement (a position is the
\* line of score.py about to run), with a KeyboardInterrupt or the end of the
\* process possible before any of them.  _check_achievements and json.dump are
\* one statement each.
Statements == <<"79", "80", "83", "96", "99", "198", "199", "104">>
Running == frame # NoFrame /\ \E k \in 1..Len(Statements) : frame[1].pc = Statements[k]
PcAfter(pc) ==
    LET k == CHOOSE n \in 1..Len(Statements) : Statements[n] = pc
    IN  IF k = Len(Statements) THEN "returned" ELSE Statements[k + 1]

\* the manager after the statement at f.pc
AfterStatement(m, f) ==
    CASE f.pc = "79" -> [m EXCEPT !.score = NewScore(m, f.points)]
      [] f.pc = "80" -> [m EXCEPT !.round_count = m.round_count + 1]
      [] f.pc = "83" -> IF IsCorrect(f.points)
                        THEN [m EXCEPT !.correct_answers = m.correct_answers + 1]
                        ELSE [m EXCEPT !.wrong_answers = m.wrong_answers + 1]
      [] f.pc = "96" -> [m EXCEPT !.score_history =
                            Append(m.score_history,
                                   [ round        |-> m.round_count,
                                     points_added |-> f.points,
                                     old_score    |-> f.old_score,
                                     new_score    |-> m.score ])]
      [] f.pc = "99" -> check_achievements(m)
      [] OTHER -> m

\* the manager's file after the statement at f.pc: open(file, 'w') empties it,
\* json.dump fills it
FileAfterStatement(m, f, file) ==
    CASE f.pc = "198" -> TruncatedFile
      [] f.pc = "199" -> JsonFile(score_data(m))
      [] OTHER -> file

\* add_points(points) is called on slot i with an int: lines 75-78.  A manager
\* whose call was interrupted is not called again: the interrupt ends the process
\* (main.py 485-488), and the next run constructs its own.
Enter(i, points) ==
    /\ ~Running
    /\ Owner(i)
    /\ origin[i] # "interrupted"
    /\ M(i).round_count < MaxInterrupt
    /\ frame' = <<[inst |-> i, points |-> points, pc |-> Statements[1],
                   old_score |-> M(i).score, entry |-> M(i), files |-> store]>>
    /\ lastOp' = Call("add_points", i, points, "running", M(i).score)
    /\ UNCHANGED <<mgr, store, passed, origin, game, quiz, registry, util>>

\* the statement at the frame's position runs
Statement ==
    /\ Running
    /\ LET f == frame[1]
           m == mgr[f.inst][1]
           returns == PcAfter(f.pc) = "returned"
       IN  /\ mgr' = [mgr EXCEPT ![f.inst] = <<AfterStatement(m, f)>>]
           /\ store' = [store EXCEPT ![m.score_file] = FileAfterStatement(m, f, @)]
           /\ frame' = <<[f EXCEPT !.pc = PcAfter(f.pc)]>>
           /\ passed' = IF returns
                        THEN [passed EXCEPT ![f.inst] = Append(@, f.points)]
                        ELSE passed
           /\ lastOp' = IF returns
                        THEN [Call("add_points", f.inst, f.points, "ok", f.old_score)
                                EXCEPT !.io = "written"]
                        ELSE lastOp
    /\ UNCHANGED <<origin, game, quiz, registry, util>>

\* KeyboardInterrupt is raised before the statement at the frame's position: it
\* is no Exception, so no handler of score.py catches it, and the call is left
Interrupt ==
    /\ Running
    /\ frame' = <<[frame[1] EXCEPT !.pc = "interrupted"]>>
    /\ origin' = [origin EXCEPT ![frame[1].inst] = "interrupted"]
    /\ lastOp' = Call("add_points", frame[1].inst, frame[1].points, "KeyboardInterrupt",
                      frame[1].old_score)
    /\ UNCHANGED <<mgr, store, passed, game, quiz, registry, util>>

NextInterrupt ==
    \/ ~Running /\ UseConstruct({PyNone})
    \/ \E i \in Instances, points \in GameDeltas : Enter(i, points)
    \/ Statement
    \/ Interrupt
    \/ ~Running /\ UseExit

SpecInterrupt == Init /\ [][NextInterrupt]_vars

\* SpecSharp: one manager of the default player, started fresh, given the game's
\* two deltas and reset, for as many rounds as Sharp Shooter needs
SharpConstruct == Construct(1, PyNone) /\ ScoreOnly
SharpAddPoints ==
    \E points \in GameDeltas :
        RoundsLeft(1, points, MaxSharp) /\ add_points(1, points, "written") /\ ScoreOnly
SharpReset == reset_score(1, "written") /\ ScoreOnly

NextSharp == SharpConstruct \/ SharpAddPoints \/ SharpReset

SpecSharp == Init /\ [][NextSharp]_vars

\* SpecPlayers: two managers side by side, each constructed for "", "default" or
\* "alice", both used in any order
PlayerArgs == {PyStr(""), PyStr("default"), PyStr("alice")}

PlayersAddPoints ==
    \E i \in Instances, points \in GameDeltas :
        RoundsLeft(i, points, MaxPlayers) /\ add_points(i, points, "written") /\ ScoreOnly
PlayersReset == \E i \in Instances : reset_score(i, "written") /\ ScoreOnly

NextPlayers ==
    \/ UseConstruct(PlayerArgs)
    \/ PlayersAddPoints
    \/ PlayersReset
    \/ UseExit

SpecPlayers == Init /\ [][NextPlayers]_vars

(***************************************************************************)
(* The game of src/main.py                                                  *)
(***************************************************************************)
\* one player plays; the game's score_manager is slot 1.  A step runs from one
\* input() to the next.  game.pc is the input the game waits for: "answer"
\* (_get_user_input), "continue" (_ask_continue), "ask_reset" (_ask_score_reset);
\* "over" when start_game has returned.
GamePlayer == "alice"
GameSlot == 1
\* a target of a hundred points
WinScoreCentury == 2 * HalfCenturyScore
WinScore == 50
CorrectPoints == 10
WrongPoints == 0 - 5

Max(a, b) == IF a >= b THEN a ELSE b

\* SessionManager.end_session for the game's session: it is stored if it is
\* active, and is active no more
game_end_session(g, final_score, won) ==
    [g EXCEPT !.sessions = IF g.active
                           THEN Append(g.sessions, [final_score |-> final_score, won |-> won])
                           ELSE g.sessions,
              !.active = FALSE]

\* SessionManager.get_session_duration for the game's session: the time since
\* its start as mm:ss (the digits are the clock's, which is not followed), or
\* None when the session is not among the active ones
game_session_duration(g) == IF g.active THEN PyStr("mm:ss") ELSE PyNone

\* _save_game_data: the game record handed to save_game_history
save_game_data(g, final_score) ==
    [g EXCEPT !.saved = <<[ final_score      |-> final_score,
                            rounds           |-> Len(g.history),
                            session_duration |-> game_session_duration(g) ]>>]

\* _end_game(won) up to the reset prompt: the profile, then end_session, which
\* stores the session it finds active, then _save_game_data
end_game(g, final_score, won, ending) ==
    LET counted == [g EXCEPT
            !.profile = [ total_games |-> g.profile.total_games + 1,
                          total_wins  |-> g.profile.total_wins + (IF won THEN 1 ELSE 0),
                          best_score  |-> Max(g.profile.best_score, final_score) ]]
        ended == save_game_data(game_end_session(counted, final_score, won), final_score)
    IN  [ended EXCEPT !.pc = "ask_reset", !.ending = ending]

\* start_game after its loop: every way out of the loop is a False returned by
\* play_round, and the statement after the loop is _end_game(won=True)
after_loop(g, final_score, ending) == end_game(g, final_score, TRUE, ending)

\* BrainPlayGame(player_name) and start_game up to the first question:
\* ScoreManager(player_id), reset_score(), start_session
NewGame ==
    /\ game.pc \in {"none", "over"}
    /\ game.profile.total_games < MaxGames
    /\ LET loaded == load_score(NewManager(GamePlayer), store)
           m == ResetOf(loaded)
       IN  /\ mgr' = [mgr EXCEPT ![GameSlot] = <<m>>]
           /\ store' = save_score(m, store, "written")
           /\ lastOp' = [Call("reset_score", GameSlot, PyNone, "ok", loaded.score)
                            EXCEPT !.io = "written"]
           /\ game' = [game EXCEPT !.pc = "answer",
                                   !.active = TRUE,
                                   !.history = << >>,
                                   !.start_score = get_score(m),
                                   !.ending = "none"]
    /\ passed' = [passed EXCEPT ![GameSlot] = << >>]
    /\ origin' = [origin EXCEPT ![GameSlot] = "reset"]
    /\ UNCHANGED <<frame, quiz, registry, util>>

\* a round that takes nothing off for a wrong answer: add_points is called for
\* a correct answer only
AnsweredUnscored(is_correct) ==
    /\ game.pc = "answer"
    /\ Len(game.history) < MaxGameRounds
    /\ LET points == IF is_correct THEN CorrectPoints ELSE 0
           total == IF is_correct
                    THEN get_score(AddPointsTo(M(GameSlot), PyInt(points)))
                    ELSE get_score(M(GameSlot))
           g == [game EXCEPT !.history =
                    Append(game.history,
                           [ round_number  |-> Len(game.history) + 1,
                             is_correct    |-> is_correct,
                             points_earned |-> points,
                             total_score   |-> total ])]
       IN  /\ IF is_correct THEN add_points(GameSlot, PyInt(points), "written")
              ELSE UNCHANGED <<mgr, store, lastOp, passed, origin>>
           /\ game' = IF total >= WinScore
                      THEN after_loop(g, total, "target")
                      ELSE [g EXCEPT !.pc = "continue"]

\* play_round from line 92 on, for the verdict of check_answer: add_points, the
\* round's record, the win check
Answered(is_correct) ==
    /\ game.pc = "answer"
    /\ Len(game.history) < MaxGameRounds
    /\ LET points == IF is_correct THEN CorrectPoints ELSE WrongPoints
           total == get_score(AddPointsTo(M(GameSlot), PyInt(points)))
           g == [game EXCEPT !.history =
                    Append(game.history,
                           [ round_number  |-> Len(game.history) + 1,
                             is_correct    |-> is_correct,
                             points_earned |-> points,
                             total_score   |-> total ])]
       IN  /\ add_points(GameSlot, PyInt(points), "written")
           /\ game' = IF total >= WinScore
                      THEN after_loop(g, total, "target")
                      ELSE [g EXCEPT !.pc = "continue"]

\* play_round with an answer, the question and the text typed left aside
Round(is_correct) == Answered(is_correct) /\ UNCHANGED <<frame, quiz, registry, util>>

\* play_round left by an exception: "quit" typed as the answer
\* (GameExitException, caught at 140) or an unexpected error (caught at 143)
RoundLeft(ending) ==
    /\ game.pc = "answer"
    /\ game' = after_loop(game, get_score(M(GameSlot)), ending)
    /\ UNCHANGED <<mgr, store, lastOp, passed, origin, frame, quiz, registry, util>>

\* _ask_continue: y, yes or Enter go on; anything else ends the loop
AskContinue(choice) ==
    /\ game.pc = "continue"
    /\ game' = IF choice \in {"y", "yes", ""}
               THEN [game EXCEPT !.pc = "answer"]
               ELSE after_loop(game, get_score(M(GameSlot)), "declined")
    /\ UNCHANGED <<mgr, store, lastOp, passed, origin, frame, quiz, registry, util>>

\* a reset that starts the player's statistics over as well
AskScoreResetClearing(choice) ==
    /\ game.pc = "ask_reset"
    /\ IF choice \in {"y", "yes"}
       THEN /\ reset_score(GameSlot, "written")
            /\ game' = [game EXCEPT !.pc = "over",
                                    !.profile = NoGame.profile,
                                    !.carry = [choice |-> "reset", score |-> 0]]
       ELSE /\ game' = [game EXCEPT !.pc = "over",
                                    !.carry = [choice |-> "kept",
                                               score |-> get_score(M(GameSlot))]]
            /\ UNCHANGED <<mgr, store, lastOp, passed, origin>>
    /\ UNCHANGED <<frame, quiz, registry, util>>

\* _ask_score_reset and the rest of _end_game
AskScoreReset(choice) ==
    /\ game.pc = "ask_reset"
    /\ IF choice \in {"y", "yes"}
       THEN /\ reset_score(GameSlot, "written")
            /\ game' = [game EXCEPT !.pc = "over",
                                    !.carry = [choice |-> "reset", score |-> 0]]
       ELSE /\ game' = [game EXCEPT !.pc = "over",
                                    !.carry = [choice |-> "kept",
                                               score |-> get_score(M(GameSlot))]]
            /\ UNCHANGED <<mgr, store, lastOp, passed, origin>>
    /\ UNCHANGED <<frame, quiz, registry, util>>

NextGame ==
    \/ NewGame
    \/ \E is_correct \in BOOLEAN : Round(is_correct)
    \/ \E ending \in {"quit", "error"} : RoundLeft(ending)
    \/ \E choice \in {"y", "", "n", "maybe"} : AskContinue(choice)
    \/ \E choice \in {"y", "n"} : AskScoreReset(choice)

SpecGame == Init /\ [][NextGame]_vars

\* the quit commands of _get_user_input
QuitCommands == {<<"q", "u", "i", "t">>, <<"e", "x", "i", "t">>, <<"q">>}

\* _get_user_input that takes a quit command for an answer
get_user_input_no_quit(typed) ==
    LET answer == strip(typed)
    IN  IF answer = << >> THEN Raised("InvalidInputException") ELSE Returned(answer)

\* _get_user_input: the text typed, stripped; an empty one and a quit command
\* leave the round by their exceptions
get_user_input(typed) ==
    LET answer == strip(typed)
    IN  IF answer = << >> THEN Raised("InvalidInputException")
        ELSE IF lower(answer) \in QuitCommands THEN Raised("GameExitException")
        ELSE Returned(answer)

\* play_round for the question create_question returned and the text typed:
\* an empty text is told off and the loop goes on (136-139), a quit command
\* leaves the loop (140-142), anything else is an answer
play_round(question, typed) ==
    LET input == get_user_input(typed)
    IN  /\ game.pc = "answer"
        /\ Len(game.history) < MaxGameRounds
        /\ IF input.raised = "InvalidInputException"
           THEN /\ quiz' = [quiz EXCEPT !.question = <<question>>,
                                        !.call = [op |-> "get_user_input", typed |-> typed,
                                                  result |-> input]]
                /\ UNCHANGED <<mgr, store, lastOp, passed, origin, game>>
           ELSE IF input.raised = "GameExitException"
           THEN /\ quiz' = [quiz EXCEPT !.question = <<question>>,
                                        !.call = [op |-> "get_user_input", typed |-> typed,
                                                  result |-> input]]
                /\ game' = after_loop(game, get_score(M(GameSlot)), "quit")
                /\ UNCHANGED <<mgr, store, lastOp, passed, origin>>
           ELSE /\ quiz' = [quiz EXCEPT !.question = <<question>>,
                                        !.call = [op |-> "check_answer",
                                                  user_answer |-> input.value,
                                                  result |-> check_answer(question, input.value)]]
                /\ Answered(check_answer(question, input.value).value)
        /\ UNCHANGED <<frame, registry, util>>

\* the questions of the rounds: one of each type, of the game's mode
GameMode == "normal"
RoundQuestions ==
    {SquareGenerate(GameMode, 7, [kind |-> "timeout"]).value,
     SquareRootGenerate(NewSquareRootGenerator(GameMode), 49).value}

\* what the player types to a question of answer a: the answer after a
\* blank, a wrong number, no number, nothing, blanks, and the quit commands
RoundInputs(a) ==
    {<<" ">> \o py_str(a), py_str(a + 1), <<"a", "b", "c">>,
     << >>, <<" ", " ">>,
     <<"q", "u", "i", "t">>, <<"e", "x", "i", "t">>, <<" ", "Q">>}

UsePlayRound ==
    /\ Len(game.history) < MaxTypedRounds
    /\ \E question \in RoundQuestions :
           \E typed \in RoundInputs(IntValue(question.answer)) : play_round(question, typed)

NextRounds ==
    \/ (game.profile.total_games < MaxTypedGames /\ NewGame)
    \/ UsePlayRound
    \/ \E choice \in {"y", "n"} : AskContinue(choice)
    \/ \E choice \in {"y", "n"} : AskScoreReset(choice)

SpecRounds == Init /\ [][NextRounds]_vars

(***************************************************************************)
(* The questions side as a state machine: one caller                        *)
(***************************************************************************)
QuestionsOnly ==
    UNCHANGED <<mgr, store, lastOp, passed, origin, frame, game, registry, util>>

\* what a finished call leaves: its question if it returned one
Asked(result) == IF result.raised = "none" THEN <<result.value>> ELSE quiz.question

\* QuestionFactory.create_specific_question(question_type, difficulty)
create_specific_question(question_type, difficulty) ==
    LET selected == specific_type(quiz.factory, question_type)
    IN  IF selected.raised # "none"
        THEN quiz' = [quiz EXCEPT
                 !.call = [op |-> "create_specific_question", difficulty |-> difficulty,
                           question_type |-> question_type,
                           lookups |-> << >>, result |-> selected]]
        ELSE LET generator == NewGenerator(quiz.factory, selected.value, difficulty)
             IN  \E draw \in Draws(generator) :
                     LET result == Generate(generator, draw)
                     IN  quiz' = [quiz EXCEPT
                             !.question = Asked(result),
                             !.call = [op |-> "create_specific_question",
                                       difficulty |-> difficulty,
                                       question_type |-> question_type,
                                       lookups |-> draw.lookups, result |-> result]]

\* SquareGenerator(difficulty) or SquareRootGenerator(difficulty), kept by the caller
construct_generator(class, difficulty) ==
    quiz' = [quiz EXCEPT
        !.generator = <<IF class = "SquareGenerator" THEN NewSquareGenerator(difficulty)
                        ELSE NewSquareRootGenerator(difficulty)>>,
        !.call = [op |-> "construct_generator", class |-> class, difficulty |-> difficulty]]

\* generate() on the generator the caller keeps
generate ==
    /\ quiz.generator # << >>
    /\ \E draw \in Draws(quiz.generator[1]) :
           LET result == Generate(quiz.generator[1], draw)
           IN  quiz' = [quiz EXCEPT
                   !.question = Asked(result),
                   !.call = [op |-> "generate", class |-> quiz.generator[1].class,
                             difficulty |-> quiz.generator[1].difficulty,
                             lookups |-> draw.lookups, result |-> result]]

\* what a player may type to a question of answer a: the answer itself, its
\* neighbours, the answer with decimals and padding, decimals on both sides of
\* the tolerance, and strings that are no number
Decimal(n, decimals) == py_str(n) \o <<".">> \o decimals
UserAnswers(a) ==
    {py_str(a), py_str(a + 1), py_str(a - 1),
     Decimal(a, <<"0">>), <<" ">> \o py_str(a) \o <<" ", "\n">>, <<"+">> \o py_str(a),
     Decimal(a, <<"0", "0", "9">>), Decimal(a, <<"0", "1", "1">>), Decimal(a, <<"0", "2">>),
     Decimal(a - 1, <<"9", "9", "1">>), Decimal(a - 1, <<"9", "8", "9">>),
     Decimal(a - 1, <<"9", "8">>),
     <<"-">> \o py_str(a),
     << >>, <<" ">>, <<"i", "n", "v", "a", "l", "i", "d">>, <<"2", " ", "5">>,
     <<"-", "-", "1">>, <<"1", ".", "2", ".", "3">>, py_str(a) \o <<"x">>,
     <<"n", "a", "n">>, <<"I", "n", "f">>, <<"-", "i", "n", "f">>}

\* question.check_answer(user_answer) on the question asked
answer_question(user_answer) ==
    /\ quiz.question # << >>
    /\ quiz' = [quiz EXCEPT
           !.call = [op |-> "check_answer", user_answer |-> user_answer,
                     result |-> check_answer(quiz.question[1], user_answer)]]

\* the types a caller may ask for: the two configured, and one that is not
AskedTypes == {"square", "square_root", "number_guess"}
GeneratorClasses == {"SquareGenerator", "SquareRootGenerator"}

UseCreateSpecific ==
    (\E t \in AskedTypes, d \in Difficulties : create_specific_question(t, d)) /\ QuestionsOnly
UseConstructGenerator ==
    (\E c \in GeneratorClasses, d \in Difficulties : construct_generator(c, d)) /\ QuestionsOnly
UseGenerate == generate /\ QuestionsOnly
UseCheckAnswer ==
    /\ quiz.question # << >>
    /\ \E u \in UserAnswers(IntValue(quiz.question[1].answer)) : answer_question(u)
    /\ QuestionsOnly

\* questions asked for by type, one after the other
SpecQuestions == Init /\ [][UseCreateSpecific]_vars

\* a generator the caller constructs and keeps, and its generate() calls
NextGenerator ==
    \/ UseConstructGenerator
    \/ UseGenerate

SpecGenerator == Init /\ [][NextGenerator]_vars

\* every question a generator can return
AllQuestions ==
    UNION {{Generate(NewGenerator(NewFactory, t, d), draw).value :
               draw \in Draws(NewGenerator(NewFactory, t, d))} :
           t \in get_available_types(NewFactory), d \in Difficulties}

\* check_answer is a function of the question and the answer typed: the
\* question is any a generator returns, and the player answers it
InitAnswers ==
    /\ mgr = [i \in Instances |-> NoManager]
    /\ store = [f \in Files |-> NoFile]
    /\ lastOp = Call("init", 0, PyNone, "ok", 0)
    /\ passed = [i \in Instances |-> << >>]
    /\ origin = [i \in Instances |-> "none"]
    /\ frame = NoFrame
    /\ game = NoGame
    /\ \E q \in AllQuestions : quiz = [NoQuiz EXCEPT !.question = <<q>>]
    /\ registry = NoRegistry
    /\ util = NoUtil

SpecAnswers == InitAnswers /\ [][UseCheckAnswer]_vars

(***************************************************************************)
(* create_question calls interleaved on one factory.  A call runs to its    *)
(* first await that suspends: SquareRootGenerator.generate has none, and    *)
(* SquareGenerator.generate waits at line 94 for the lookup.                *)
(***************************************************************************)
\* QuestionFactory.create_question(difficulty) up to the await of the lookup
TaskStart(k, difficulty) ==
    /\ quiz.tasks[k].pc = "idle"
    /\ \E selected_type \in WeightedTypes(quiz.factory) :
           LET generator == NewGenerator(quiz.factory, selected_type, difficulty)
           IN  IF generator.class = "SquareGenerator"
               THEN \E n \in SquareNumbers(generator.difficulty) :
                        quiz' = [quiz EXCEPT !.tasks[k] =
                            [pc |-> "lookup", difficulty |-> difficulty,
                             generator |-> generator, base_number |-> n]]
               ELSE \E draw \in Draws(generator) :
                        quiz' = [quiz EXCEPT !.tasks[k] =
                            [pc |-> "done", difficulty |-> difficulty,
                             result |-> Generate(generator, draw)]]
    /\ QuestionsOnly

\* the lookup comes to its outcome and SquareGenerator.generate finishes
TaskLookup(k) ==
    /\ quiz.tasks[k].pc = "lookup"
    /\ \E outcome \in LookupOutcomes :
           quiz' = [quiz EXCEPT !.tasks[k] =
               [pc |-> "done", difficulty |-> quiz.tasks[k].difficulty,
                result |-> SquareGenerate(quiz.tasks[k].generator.difficulty,
                                          quiz.tasks[k].base_number, outcome)]]
    /\ QuestionsOnly

\* the caller takes the question; the task can make another call
TaskCollect(k) ==
    /\ quiz.tasks[k].pc = "done"
    /\ quiz' = [quiz EXCEPT !.tasks[k] = IdleTask]
    /\ QuestionsOnly

NextFactory ==
    \/ \E k \in Tasks, d \in Difficulties : TaskStart(k, d)
    \/ \E k \in Tasks : TaskLookup(k)
    \/ \E k \in Tasks : TaskCollect(k)

SpecFactory == Init /\ [][NextFactory]_vars

(***************************************************************************)
(* Properties of the score engine                                           *)
(***************************************************************************)
Held(i, a) == \E k \in 1..Len(M(i).achievements) : M(i).achievements[k] = a
AchievementSet(i) == {M(i).achievements[k] : k \in 1..Len(M(i).achievements)}
PrefixSum(deltas, k) == SumValues(SubSeq(deltas, 1, k))
DeltasOf(history) == [k \in 1..Len(history) |-> history[k].points_added]
SinceStart(i) == origin[i] \in {"fresh", "reset"}
AddedTo(i, op) == op.op = "add_points" /\ op.inst = i /\ op.result = "ok"

\* C1: on a manager started fresh (no stored record) and given only add_points
\* calls, get_score() is the sum of the deltas passed and round_count is their
\* number; the score may be negative.
C1_ScoreIsSumOfDeltas ==
    \A i \in Instances :
        origin[i] = "fresh" =>
            /\ get_score(M(i)) = SumValues(passed[i])
            /\ M(i).round_count = Len(passed[i])

C1_Witness ==
    /\ origin[1] = "fresh"
    /\ Len(passed[1]) >= 3
    /\ get_score(M(1)) < 0

\* C2: in every state of the lifecycle (constructed with or without a stored
\* record, add_points, reset_score) the score is the sum of the history's deltas
\* and round_count = correct + wrong = len(history).
C2_HistoryInvariant ==
    \A i \in Instances :
        Live(i) =>
            /\ M(i).score = SumValues(DeltasOf(M(i).score_history))
            /\ M(i).round_count = M(i).correct_answers + M(i).wrong_answers
            /\ M(i).round_count = Len(M(i).score_history)

C2_Witness ==
    \E i \in Instances :
        /\ origin[i] = "loaded"
        /\ Len(passed[i]) >= 1
        /\ Len(M(i).score_history) >= Len(passed[i]) + 2

\* C3: an accepted add_points(delta) adds one to correct_answers when delta > 0
\* and one to wrong_answers when delta <= 0 (zero counts as wrong), and leaves
\* the other counter as it was.
C3_OneCounterPerRound ==
    [][\A i \in Instances :
          AddedTo(i, lastOp') =>
              IF IntValue(lastOp'.arg) > 0
              THEN /\ mgr'[i][1].correct_answers = M(i).correct_answers + 1
                   /\ mgr'[i][1].wrong_answers = M(i).wrong_answers
              ELSE /\ mgr'[i][1].wrong_answers = M(i).wrong_answers + 1
                   /\ mgr'[i][1].correct_answers = M(i).correct_answers]_vars

C3_Witness ==
    \E i \in Instances :
        /\ AddedTo(i, lastOp)
        /\ lastOp.arg = PyInt(0)
        /\ M(i).wrong_answers = 2
        /\ M(i).correct_answers = 1

\* C4: add_points with a string or a float (a whole one too) ends in a type
\* error and changes nothing: neither a manager's fields nor a stored record.
C4_NonIntegerRejected ==
    [][(lastOp'.op = "add_points" /\ lastOp'.arg.type \in {"str", "float"}) =>
          /\ lastOp'.result = "TypeError"
          /\ UNCHANGED <<mgr, store>>]_vars

C4_Witness ==
    /\ lastOp.op = "add_points"
    /\ lastOp.arg = PyFloat(10, 0)
    /\ lastOp.result = "TypeError"
    /\ M(lastOp.inst).round_count >= 2
    /\ M(lastOp.inst).achievements # << >>

\* C5: right after reset_score the manager has score 0, no rounds, no correct or
\* wrong answers, an empty history, no achievements and accuracy 0, and the
\* player's file holds that zero state.
C5_ResetZeroes ==
    lastOp.op = "reset_score" =>
        LET m == M(lastOp.inst)
        IN  /\ m.score = 0
            /\ m.round_count = 0
            /\ m.correct_answers = 0
            /\ m.wrong_answers = 0
            /\ m.score_history = << >>
            /\ m.achievements = << >>
            /\ accuracy(m) = [num |-> 0, den |-> 1]
            /\ store[m.score_file] =
                   << [ text |-> "json",
                        data |-> [ player_id       |-> m.player_id,
                                   score           |-> 0,
                                   round_count     |-> 0,
                                   correct_answers |-> 0,
                                   wrong_answers   |-> 0,
                                   score_history   |-> << >>,
                                   achievements    |-> << >> ] ] >>

C5_Witness ==
    /\ lastOp.op = "reset_score"
    /\ lastOp.old_score >= 50
    /\ M(lastOp.inst).score = 0

NoDuplicates(list) == \A j, k \in 1..Len(list) : list[j] = list[k] => j = k
IsPrefix(a, b) == Len(a) <= Len(b) /\ SubSeq(b, 1, Len(a)) = a

C8_AchievementsOnlyGrow ==
    [][\A i \in Instances :
          mgr'[i] # NoManager =>
              /\ NoDuplicates(mgr'[i][1].achievements)
              /\ check_achievements(mgr'[i][1]) = mgr'[i][1]
              /\ AddedTo(i, lastOp') =>
                     /\ IsPrefix(M(i).achievements, mgr'[i][1].achievements)
                     /\ mgr'[i][1].score = M(i).score + IntValue(lastOp'.arg)]_vars

C8_Witness ==
    \E i \in Instances :
        /\ AddedTo(i, lastOp)
        /\ lastOp.old_score >= 50
        /\ M(i).score >= 50
        /\ Len(M(i).achievements) = 2

C10_RoundTrip ==
    [][\A i, j \in Instances :
          ( /\ i # j
            /\ Live(i)
            /\ ~Live(j)
            /\ mgr'[j] # NoManager
            /\ mgr'[j][1].player_id = M(i).player_id )
          => /\ mgr'[j][1].score = M(i).score
             /\ mgr'[j][1].round_count = M(i).round_count
             /\ mgr'[j][1].correct_answers = M(i).correct_answers
             /\ mgr'[j][1].wrong_answers = M(i).wrong_answers
             /\ mgr'[j][1].score_history = M(i).score_history
             /\ mgr'[j][1].achievements = M(i).achievements]_vars

C10_Witness ==
    /\ lastOp.op = "construct"
    /\ Live(1) /\ Live(2)
    /\ origin[1] = "reset"
    /\ origin[2] = "loaded"
    /\ M(2).score_history = M(1).score_history
    /\ \E k \in 1..Len(M(1).score_history) : M(1).score_history[k].points_added = PyTrue
    /\ M(2).achievements = M(1).achievements
    /\ M(1).achievements # << >>

(***************************************************************************)
(* Properties of construction over a stored file                            *)
(***************************************************************************)
Constructed(i) == lastOp.op = "construct" /\ lastOp.inst = i
FileOf(i) == store[M(i).score_file]
Zeroed(i) == M(i) = NewManager(M(i).player_id)
\* the file holds a text that does not parse, or a record without some of its keys
Malformed(file) ==
    /\ file # NoFile
    /\ \/ file[1].text # "json"
       \/ DOMAIN file[1].data # RecordKeys
\* the file holds a record that names a player other than player_id
CarriesOtherId(file, player_id) ==
    /\ file # NoFile
    /\ file[1].text = "json"
    /\ "player_id" \in DOMAIN file[1].data
    /\ file[1].data.player_id # player_id
CarriesId(file, player_id) ==
    /\ file # NoFile
    /\ file[1].text = "json"
    /\ "player_id" \in DOMAIN file[1].data
    /\ file[1].data.player_id = player_id

\* C11: a manager constructed over a stored record that is corrupt or lacks
\* fields is in the zero state (score 0, round_count 0, both counters 0, empty
\* history, no achievements), and the construction ends without an error.
C11_MalformedIsAbsent ==
    \A i \in Instances :
        Constructed(i) /\ Malformed(FileOf(i)) =>
            /\ Zeroed(i)
            /\ lastOp.result = "ok"

AfterFailedWrite(files, file, io) ==
    IF io = "open_failed" THEN files ELSE [files EXCEPT ![file] = TruncatedFile]

\* C13: when the write of an add_points or reset_score call fails, the call
\* returns normally, the manager holds the whole update (the new score, the
\* round, its counter, its history record and the achievements it earned, or
\* the zero state after a reset), and the store shows one failed write and no
\* second attempt.
C13_FailedWriteAbsorbed ==
    [][\A i \in Instances :
          /\ lastOp'.op \in {"add_points", "reset_score"}
          /\ lastOp'.inst = i
          /\ lastOp'.io \in {"open_failed", "dump_failed"}
          => /\ lastOp'.result = "ok"
             /\ mgr'[i] = <<IF lastOp'.op = "add_points"
                             THEN AddPointsTo(mgr[i][1], lastOp'.arg)
                             ELSE ResetOf(mgr[i][1])>>
             /\ lastOp'.op = "add_points" =>
                    /\ mgr'[i][1].score = mgr[i][1].score + IntValue(lastOp'.arg)
                    /\ mgr'[i][1].round_count = mgr[i][1].round_count + 1
                    /\ Len(mgr'[i][1].score_history) = Len(mgr[i][1].score_history) + 1
             /\ store' = AfterFailedWrite(store, mgr[i][1].score_file, lastOp'.io)]_vars

C13_Witness ==
    /\ AddedTo(1, lastOp)
    /\ lastOp.io = "dump_failed"
    /\ M(1).score = 20
    /\ M(1).round_count = 2
    /\ Held(1, "First Points")
    /\ FileOf(1) = TruncatedFile

(***************************************************************************)
(* Properties of an interrupted add_points                                  *)
(***************************************************************************)
\* the statements of add_points, run to the end, make the update and the write
\* that the one-step add_points makes
StatementsMakeAddPoints ==
    frame # NoFrame /\ frame[1].pc = "returned" /\ AddedTo(frame[1].inst, lastOp) =>
        LET f == frame[1]
            post == AddPointsTo(f.entry, f.points)
        IN  /\ mgr[f.inst] = <<post>>
            /\ store = save_score(post, f.files, "written")

\* C14: after an interruption inside add_points the manager is either the one
\* the call started from or the one a completed call leaves, and so is the
\* player's file: its content at entry, or the record of the completed call.
C14_AtomicUnderInterruption ==
    frame # NoFrame /\ frame[1].pc = "interrupted" /\ lastOp.result = "KeyboardInterrupt" =>
        LET f == frame[1]
            post == AddPointsTo(f.entry, f.points)
            file == f.entry.score_file
        IN  /\ mgr[f.inst] \in {<<f.entry>>, <<post>>}
            /\ store[file] \in {f.files[file], JsonFile(score_data(post))}

\* the same for the file alone: what the next run loads
C14_FileAtomicUnderInterruption ==
    frame # NoFrame /\ frame[1].pc = "interrupted" /\ lastOp.result = "KeyboardInterrupt" =>
        LET f == frame[1]
            post == AddPointsTo(f.entry, f.points)
            file == f.entry.score_file
        IN  store[file] \in {f.files[file], JsonFile(score_data(post))}

(***************************************************************************)
(* Properties of the game                                                   *)
(***************************************************************************)
GameEnded == game.pc \in {"ask_reset", "over"}
LastSession == game.sessions[Len(game.sessions)]
JustStarted == game.pc = "answer" /\ game.history = << >>

\* C15: a game that has ended is stored as won only if its final score is at
\* least 50, and a game ended by quitting, by declining to continue or by an
\* unexpected error is stored as lost.
C15_WonOnlyAtTarget ==
    GameEnded /\ game.sessions # << >> =>
        /\ LastSession.won => LastSession.final_score >= WinScore
        /\ game.ending \in {"quit", "declined", "error"} => ~LastSession.won

\* C16: a game that starts after the player declined the reset starts at the
\* score that was kept, and a game that starts after an accepted reset starts
\* at 0.
C16_KeptScoreStartsNextGame ==
    JustStarted =>
        /\ game.carry.choice = "kept" => game.start_score = game.carry.score
        /\ game.carry.choice = "reset" => game.start_score = 0

(***************************************************************************)
(* Properties of the accuracy and its achievements                          *)
(***************************************************************************)
\* the number of positive deltas among the first k
CorrectAmong(deltas, k) == Cardinality({j \in 1..k : IntValue(deltas[j]) > 0})
AllCorrect(deltas, k) == \A j \in 1..k : IntValue(deltas[j]) > 0

\* C17: a manager started fresh or reset holds "Perfect Start" exactly when
\* some add_points call since then left round_count >= 5 with every round so
\* far correct; a delta <= 0 among the first five rounds rules it out until the
\* next reset.
C17_PerfectStart ==
    \A i \in Instances :
        Live(i) /\ SinceStart(i) =>
            /\ M(i).round_count = Len(passed[i])
            /\ Held(i, "Perfect Start") <=>
                    \E k \in PerfectStartRounds..Len(passed[i]) : AllCorrect(passed[i], k)
            /\ (\E j \in 1..Len(passed[i]) :
                    j <= PerfectStartRounds /\ IntValue(passed[i][j]) <= 0)
               => ~Held(i, "Perfect Start")

C17_Witness ==
    /\ origin[1] = "reset"
    /\ Held(1, "Perfect Start")
    /\ Len(passed[1]) = 6
    /\ IntValue(passed[1][6]) < 0

\* C18: a manager started fresh or reset holds "Sharp Shooter" exactly when
\* some add_points call since then left round_count >= 10 and
\* 100 * correct >= 90 * round_count.
C18_SharpShooter ==
    \A i \in Instances :
        Live(i) /\ SinceStart(i) =>
            (Held(i, "Sharp Shooter") <=>
                \E k \in SharpShooterRounds..Len(passed[i]) :
                    100 * CorrectAmong(passed[i], k) >= SharpShooterAccuracy * k)

C18_Witness ==
    /\ SinceStart(1)
    /\ Held(1, "Sharp Shooter")
    /\ ~Held(1, "Perfect Start")
    /\ M(1).round_count = 11
    /\ M(1).correct_answers = 9

\* C19: accuracy is 100 * correct / (correct + wrong), 0.0 when no round was
\* played, and lies between 0 and 100; after the deltas 10, -5, 10 on a fresh
\* manager the score is 15 with 2 correct and 1 wrong, and the accuracy of
\* get_statistics is 66.67.
C19_Accuracy ==
    \A i \in Instances :
        Live(i) =>
            LET m == M(i)
                total == m.correct_answers + m.wrong_answers
                a == accuracy(m)
            IN  /\ total = 0 => a.num = 0 /\ RoundedAccuracy(m) = 0
                /\ total > 0 => a.num * total = 100 * m.correct_answers * a.den
                /\ a.den > 0 /\ 0 <= a.num /\ a.num <= 100 * a.den
                /\ 0 <= RoundedAccuracy(m) /\ RoundedAccuracy(m) <= 10000
                /\ origin[i] = "fresh" /\ passed[i] = <<PyInt(10), PyInt(-5), PyInt(10)>>
                   => /\ get_score(m) = 15
                      /\ m.correct_answers = 2
                      /\ m.wrong_answers = 1
                      /\ RoundedAccuracy(m) = 6667

C19_Witness ==
    /\ origin[1] = "fresh"
    /\ passed[1] = <<PyInt(10), PyInt(-5), PyInt(10)>>
    /\ RoundedAccuracy(M(1)) = 6667

(***************************************************************************)
(* Properties of managers side by side                                      *)
(***************************************************************************)
\* C20: add_points or reset_score on one manager leaves every manager of a
\* different player as it was (score, counts, history, achievements), and
\* leaves that player's file as it was.
C20_PerPlayerState ==
    [][\A i, j \in Instances :
          /\ lastOp'.op \in {"add_points", "reset_score"}
          /\ lastOp'.inst = i
          /\ Live(j)
          /\ M(j).player_id # M(i).player_id
          => /\ mgr'[j] = mgr[j]
             /\ store'[M(j).score_file] = store[M(j).score_file]]_vars

C20_Witness ==
    /\ Live(1) /\ Live(2)
    /\ M(1).player_id = "alice" /\ M(2).player_id = "default"
    /\ lastOp.op = "reset_score" /\ lastOp.inst = 1 /\ lastOp.old_score = 10
    /\ M(2).score = 0 - 5
    /\ FileOf(2) = JsonFile(score_data(M(2)))

TheQuestion == quiz.question[1]
Checked == quiz.call.op = "check_answer"
CheckedWith(user_answer) == Checked /\ quiz.call.user_answer = user_answer
Accepted == quiz.call.result = Returned(TRUE)
Rejected == quiz.call.result = Returned(FALSE)
TheAnswer == IntValue(TheQuestion.answer)

\* C22: on a numeric answer a, an input that parses as the number x is
\* accepted exactly when |x - a| < 0.01, whatever the size of a: a + 0.009 is
\* accepted; a + 0.02, a + 1 and a - 1 are rejected.
C22_AbsoluteTolerance ==
    Checked =>
        LET x == py_float(quiz.call.user_answer)
            a == TheAnswer
        IN  /\ x.kind = "finite" =>
                   (Accepted <=> (x.milli - 1000 * a < 10 /\ 1000 * a - x.milli < 10))
            /\ x.kind \in {"inf", "-inf", "nan"} => Rejected
            /\ CheckedWith(Decimal(a, <<"0", "0", "9">>)) => Accepted
            /\ CheckedWith(Decimal(a, <<"0", "2">>)) => Rejected
            /\ CheckedWith(py_str(a + 1)) => Rejected
            /\ CheckedWith(py_str(a - 1)) => Rejected

C22_Witness ==
    /\ TheAnswer = 900
    /\ CheckedWith(<<"9", "0", "0", ".", "0", "0", "9">>)
    /\ Accepted

\* C23: every question a SquareGenerator or a SquareRootGenerator returns, at
\* any difficulty, accepts str(answer) and rejects str(answer + 1).
C23_OwnAnswerAccepted ==
    /\ quiz.question # << >>
    /\ TheQuestion.question_type \in {"square", "square_root"}
    /\ check_answer(TheQuestion, py_str(TheAnswer)) = Returned(TRUE)
    /\ check_answer(TheQuestion, py_str(TheAnswer + 1)) = Returned(FALSE)
    /\ CheckedWith(py_str(TheAnswer)) => Accepted
    /\ CheckedWith(py_str(TheAnswer + 1)) => Rejected

C23_Witness ==
    /\ TheQuestion.question_type = "square_root"
    /\ TheQuestion.difficulty = "hard"
    /\ TheQuestion.text.number = 10000
    /\ CheckedWith(<<"1", "0", "1">>)
    /\ Rejected

\* C24: on a numeric answer, check_answer returns False and raises nothing
\* for every string that is not a number, and no call of it changes the
\* question: its text, answer, type and difficulty stay what they were.
C24_NotANumberIsWrong ==
    [][Checked' =>
          /\ quiz'.question = quiz.question
          /\ quiz'.call.result.raised = "none"
          /\ (py_float(quiz'.call.user_answer).kind = "ValueError" =>
                 quiz'.call.result = Returned(FALSE))]_vars

C24_Witness ==
    /\ CheckedWith(<<"i", "n", "v", "a", "l", "i", "d">>)
    /\ TheQuestion.question_type = "square"
    /\ Rejected

(***************************************************************************)
(* Properties of the generators                                             *)
(***************************************************************************)
\* the last call was generate() on a generator of this class
Generated(class) == quiz.call.op = "generate" /\ quiz.call.class = class

\* C25: a SquareGenerator draws n from 1..12 when easy, 1..20 when normal,
\* 1..30 when hard (the minimum stays 1); its question is of type "square"
\* with answer n * n; every easy draw is a normal draw and every normal draw
\* a hard one.
C25_SquareRange ==
    /\ SquareNumbers("easy") = 1..12
    /\ SquareNumbers("normal") = 1..20
    /\ SquareNumbers("hard") = 1..30
    /\ SquareNumbers("easy") \subseteq SquareNumbers("normal")
    /\ SquareNumbers("normal") \subseteq SquareNumbers("hard")
    /\ Generated("SquareGenerator") =>
           LET n == TheQuestion.text.number
           IN  /\ n \in SquareNumbers(quiz.call.difficulty)
               /\ n >= 1
               /\ TheQuestion.answer = PyInt(n * n)
               /\ TheQuestion.question_type = "square"
               /\ TheQuestion.difficulty = quiz.call.difficulty

C25_Witness ==
    /\ Generated("SquareGenerator")
    /\ quiz.call.difficulty = "easy"
    /\ TheQuestion.text.number = 12
    /\ TheAnswer = 144

\* the squares of 1..n, in order
SquaresUpTo(n) == [i \in 1..n |-> i * i]
Elements(list) == {list[k] : k \in 1..Len(list)}
KeptGenerator == quiz.generator[1]

FoundFact(outcome) == outcome.kind = "response" /\ outcome.status = 200 /\ outcome.length > 0

\* C27: whatever the lookup comes to (a fact, a timeout, a status other than
\* 200, a network error), SquareGenerator.generate raises nothing and returns
\* the question with answer n * n; the hint is there only when the lookup
\* brought a fact; the lookup is made at most once for a question.
C27_LookupNeverFails ==
    Generated("SquareGenerator") =>
        /\ quiz.call.result.raised = "none"
        /\ TheQuestion = quiz.call.result.value
        /\ TheQuestion.answer = PyInt(TheQuestion.text.number * TheQuestion.text.number)
        /\ Len(quiz.call.lookups) <= 1
        /\ \A k \in 1..Len(quiz.call.lookups) :
               TheQuestion.text.hint # << >> <=> FoundFact(quiz.call.lookups[k])

C27_Witness ==
    /\ Generated("SquareGenerator")
    /\ quiz.call.lookups = <<[kind |-> "timeout"]>>
    /\ TheQuestion.text.hint = << >>
    /\ TheQuestion.text.number = 7
    /\ TheAnswer = 49

(***************************************************************************)
(* Properties of the factory                                                *)
(***************************************************************************)
\* C28: create_specific_question(t, d) returns a question of type t when the
\* factory has a generator for t; for any other t it raises the ValueError
\* that names t and the available types, puts no other type in its place and
\* produces no question.
C28_SpecificOrError ==
    [][quiz'.call.op = "create_specific_question" =>
          LET t == quiz'.call.question_type
              result == quiz'.call.result
          IN  IF t \in {"square", "square_root"}
              THEN /\ result.raised = "none"
                   /\ result.value.question_type = t
                   /\ result.value.difficulty = quiz'.call.difficulty
                   /\ quiz'.question = <<result.value>>
              ELSE /\ result.raised = "ValueError"
                   /\ result.unknown = t
                   /\ result.available = {"square", "square_root"}
                   /\ quiz'.question = quiz.question]_vars

C28_Witness ==
    /\ quiz.call.op = "create_specific_question"
    /\ quiz.call.question_type = "number_guess"
    /\ quiz.call.result.raised = "ValueError"
    /\ quiz.question # << >>
    /\ TheQuestion.question_type = "square_root"

ResetAtStart == game.pc \in {"none", "over"} /\ game'.pc = "answer"
ResetAtEnd == game.pc = "ask_reset" /\ game'.pc = "over" /\ game'.carry.choice = "reset"

\* C30: reset_score changes the score state only: the profile's total_games,
\* total_wins and best_score are after every reset_score what they were
\* before it, the reset at the end of a game included.
C30_ResetKeepsProfile ==
    [][ResetAtStart \/ ResetAtEnd =>
          /\ lastOp'.op = "reset_score"
          /\ get_score(mgr'[GameSlot][1]) = 0
          /\ mgr'[GameSlot][1].round_count = 0
          /\ game'.profile.total_games = game.profile.total_games
          /\ game'.profile.total_wins = game.profile.total_wins
          /\ game'.profile.best_score = game.profile.best_score]_vars

C30_Witness ==
    /\ game.pc = "over"
    /\ game.carry.choice = "reset"
    /\ lastOp.op = "reset_score"
    /\ lastOp.old_score = 50
    /\ get_score(M(GameSlot)) = 0
    /\ game.profile = [total_games |-> 1, total_wins |-> 1, best_score |-> 50]

(***************************************************************************)
(* Properties of the score history                                          *)
(***************************************************************************)
\* C31: after any add_points calls on a fresh or reset manager the history
\* is a chain: record i has round i and new_score = old_score + points_added,
\* the first old_score is 0, every later old_score is the new_score before
\* it, and the last new_score is get_score().
C31_HistoryChain ==
    \A i \in Instances :
        Live(i) /\ SinceStart(i) =>
            LET h == M(i).score_history
            IN  /\ \A k \in 1..Len(h) :
                       /\ h[k].round = k
                       /\ h[k].new_score = h[k].old_score + IntValue(h[k].points_added)
                       /\ h[k].old_score = IF k = 1 THEN 0 ELSE h[k - 1].new_score
                /\ get_score(M(i)) = IF h = << >> THEN 0 ELSE h[Len(h)].new_score

C31_Witness ==
    /\ Live(1) /\ origin[1] = "reset"
    /\ Len(M(1).score_history) = 3
    /\ M(1).score_history[1].points_added = PyInt(10)
    /\ M(1).score_history[2].points_added = PyInt(0 - 5)
    /\ M(1).score_history[3].round = 3
    /\ M(1).score_history[3].old_score = 5
    /\ get_score(M(1)) = 15

(***************************************************************************)
(* Properties of the rounds of a game                                       *)
(***************************************************************************)
\* the step is a round in which the player's text was checked as an answer
AnsweredRound == game.pc = "answer" /\ quiz'.call.op = "check_answer"
\* the step is a round that _get_user_input left by an exception
LeftRound(exception) ==
    /\ game.pc = "answer"
    /\ quiz'.call.op = "get_user_input"
    /\ quiz'.call.result = Raised(exception)
GameManager == M(GameSlot)

\* C32: every answered round calls add_points once, with +10 when
\* check_answer accepted the text and -5 when it did not; the round's record
\* holds the score get_score() returns right after the call, and the score of
\* a game is always a multiple of 5.
C32_OneAddPointsPerRound ==
    [][/\ (Live(GameSlot)' => get_score(GameManager') % 5 = 0)
       /\ (AnsweredRound =>
             LET points == IF quiz'.call.result = Returned(TRUE) THEN 10 ELSE 0 - 5
                 record == game'.history[Len(game'.history)]
             IN  /\ Len(game'.history) = Len(game.history) + 1
                 /\ GameManager'.round_count = GameManager.round_count + 1
                 /\ GameManager'.score_history =
                        Append(GameManager.score_history,
                               [round |-> GameManager.round_count + 1,
                                points_added |-> PyInt(points),
                                old_score |-> get_score(GameManager),
                                new_score |-> get_score(GameManager) + points])
                 /\ get_score(GameManager') = get_score(GameManager) + points
                 /\ record.points_earned = points
                 /\ record.is_correct = (points = 10)
                 /\ record.total_score = get_score(GameManager'))]_vars

C32_Witness ==
    /\ quiz.call.op = "check_answer"
    /\ quiz.call.user_answer = <<"5", "0">>
    /\ quiz.call.result = Returned(FALSE)
    /\ Len(game.history) = 2
    /\ game.history[1].points_earned = 10
    /\ game.history[2].points_earned = 0 - 5
    /\ game.history[2].total_score = 5
    /\ get_score(GameManager) = 5

\* the text is a quit command once stripped and lowered
IsQuit(text) ==
    lower(strip(text)) \in {<<"q", "u", "i", "t">>, <<"e", "x", "i", "t">>, <<"q">>}
ScoreSideUnchanged ==
    /\ mgr' = mgr /\ store' = store /\ lastOp' = lastOp /\ passed' = passed

\* C33: a round with an empty answer or a quit command (quit, exit, q)
\* calls no add_points and appends no record: score, round_count and the
\* histories stay; after the empty answer the game waits for the answer of a
\* new round, after the quit command the game is over.
C33_NoRoundWithoutAnswer ==
    [][/\ (LeftRound("InvalidInputException") =>
             /\ strip(quiz'.call.typed) = << >>
             /\ ScoreSideUnchanged
             /\ game' = game)
       /\ (LeftRound("GameExitException") =>
             /\ IsQuit(quiz'.call.typed)
             /\ ScoreSideUnchanged
             /\ game'.history = game.history
             /\ game'.pc = "ask_reset"
             /\ game'.ending = "quit")
       /\ (AnsweredRound =>
             /\ quiz'.call.user_answer # << >>
             /\ ~IsQuit(quiz'.call.user_answer))]_vars

C33_Witness ==
    /\ quiz.call.op = "get_user_input"
    /\ quiz.call.typed = <<" ", " ">>
    /\ quiz.call.result = Raised("InvalidInputException")
    /\ game.pc = "answer"
    /\ Len(game.history) = 1
    /\ GameManager.round_count = 1
    /\ get_score(GameManager) = 10

\* C34: no round of a game is played once the score is 50 or more; a game
\* starts at 0, so its score never exceeds 55 and "Century" (score >= 100) is
\* never unlocked by playing.
C34_NoRoundPastTarget ==
    game.pc # "none" =>
        /\ game.start_score = 0
        /\ get_score(GameManager) <= 55
        /\ ~InList("Century", GameManager.achievements)
        /\ game.pc \in {"answer", "continue"} => get_score(GameManager) < 50
        /\ \A k \in 1..Len(game.history) :
               game.history[k].total_score - game.history[k].points_earned < 50

C34_Witness ==
    /\ game.pc = "ask_reset"
    /\ game.ending = "target"
    /\ Len(game.history) = 7
    /\ get_score(GameManager) = 55
    /\ InList("Half Century", GameManager.achievements)

(***************************************************************************)
(* Properties of the game's session                                         *)
(***************************************************************************)
\* C35: the game record written at the end of a game holds the duration of
\* the session just played as mm:ss: session_duration is never None in it.
C35_DurationSaved ==
    game.saved # << >> => game.saved[1].session_duration # PyNone

(***************************************************************************)
(* src/session.py: the SessionManager                                       *)
(***************************************************************************)
\* the calls made on one SessionManager
MaxSessionCalls == 4

SessionIds == {"s1", "s2"}
\* the values uuid4 may give
PlayerIds == {"p1", "p2", "p3"}
PlayerNames ==
    { <<"A", "n", "n">>, <<"a", "n", "n">>, <<"A", "N", "N">>,
      <<"S", "u", "e">>, <<"s", "U", "e">> }

\* whether a write of the data directory goes through or raises OSError
DiskOutcomes == {"written", "OSError"}

\* sessions.json keeps the last SessionLimit records
SessionLimit == 1000

KeepLast(records, limit) ==
    IF Len(records) > limit
    THEN SubSeq(records, Len(records) - limit + 1, Len(records))
    ELSE records

\* active_sessions is a dict keyed by session_id
ActiveIds(r) == {s.session_id : s \in r.active}
ActiveSession(r, session_id) == CHOOSE s \in r.active : s.session_id = session_id

\* datetime.now() is read once per call and moves on between calls
start_session(r, session_id, player_name, mode) ==
    LET session == [ session_id  |-> session_id,
                     player_name |-> player_name,
                     start_time  |-> r.now,
                     mode        |-> mode ]
    IN  [r EXCEPT
            !.active = {s \in r.active : s.session_id # session_id} \cup {session},
            !.now    = r.now + 1,
            !.events = Append(r.events, [op |-> "start_session", session_id |-> session_id]),
            !.call   = [ op |-> "start_session", session_id |-> session_id,
                         result |-> <<session>> ]]

\* _save_session: sessions.json read, the record appended, the last
\* SessionLimit kept, the file written back; an error is logged, not raised
save_session(r, record, disk) ==
    IF disk = "written"
    THEN [r EXCEPT !.stored = KeepLast(Append(r.stored, record), SessionLimit)]
    ELSE r

\* an end_session that forgets to remove the session from active_sessions
end_session_keeping(r, session_id, final_score, won, disk) ==
    LET ended == [op |-> "end_session", session_id |-> session_id]
    IN  IF session_id \notin ActiveIds(r)
        THEN [r EXCEPT !.now = r.now + 1, !.events = Append(r.events, ended),
                       !.call = ended @@ [result |-> << >>]]
        ELSE LET session == ActiveSession(r, session_id)
                 record == session @@ [ end_time    |-> r.now,
                                        final_score |-> final_score,
                                        won         |-> won ]
                 saved == save_session(r, record, disk)
             IN  [saved EXCEPT !.now = r.now + 1, !.events = Append(r.events, ended),
                               !.call = ended @@ [result |-> <<record>>]]

\* the Optional result is a sequence: << >> is None
end_session(r, session_id, final_score, won, disk) ==
    LET ended == [op |-> "end_session", session_id |-> session_id]
    IN  IF session_id \notin ActiveIds(r)
        THEN [r EXCEPT !.now = r.now + 1, !.events = Append(r.events, ended),
                       !.call = ended @@ [result |-> << >>]]
        ELSE LET session == ActiveSession(r, session_id)
                 record == session @@ [ end_time    |-> r.now,
                                        final_score |-> final_score,
                                        won         |-> won ]
                 saved == save_session(r, record, disk)
             IN  [saved EXCEPT
                    !.active = {s \in r.active : s.session_id # session_id},
                    !.now    = r.now + 1,
                    !.events = Append(r.events, ended),
                    !.call   = ended @@ [result |-> <<record>>]]

\* the players dict, in insertion order: the profiles whose name is the given
\* one under the given reading of names
Matching(r, name, reading(_)) ==
    {k \in 1..Len(r.players) : reading(r.players[k].name) = reading(name)}

Min(S) == CHOOSE k \in S : \A j \in S : k <= j

AsTyped(name) == name

\* _save_players: players.json rewritten from the dict; an error is logged
save_players(r, disk) ==
    IF disk = "written" THEN [r EXCEPT !.players_file = r.players] ELSE r

\* self.players[player.player_id] = player, then _save_players
save_player_profile(r, player, disk) ==
    LET held == {k \in 1..Len(r.players) : r.players[k].player_id = player.player_id}
        put == IF held = {}
               THEN Append(r.players, player)
               ELSE [r.players EXCEPT ![Min(held)] = player]
    IN  save_players([r EXCEPT !.players = put], disk)

create_player(r, name, player_id, disk) ==
    LET player == [ name        |-> name,
                    player_id   |-> player_id,
                    total_games |-> 0,
                    total_wins  |-> 0,
                    best_score  |-> 0 ]
        kept == save_player_profile(r, player, disk)
    IN  [kept EXCEPT !.call = [ op |-> "get_or_create_player", name |-> name,
                                result |-> player ]]

\* a lookup that compares the names as typed
get_or_create_player_exact(r, name, player_id, disk) ==
    LET found == Matching(r, name, AsTyped)
    IN  IF found # {}
        THEN [r EXCEPT !.call = [ op |-> "get_or_create_player", name |-> name,
                                  result |-> r.players[Min(found)] ]]
        ELSE create_player(r, name, player_id, disk)

\* player_id is the value of uuid4 when a profile is created
get_or_create_player(r, name, player_id, disk) ==
    LET found == Matching(r, name, lower)
    IN  IF found # {}
        THEN [r EXCEPT !.call = [ op |-> "get_or_create_player", name |-> name,
                                  result |-> r.players[Min(found)] ]]
        ELSE create_player(r, name, player_id, disk)

RegistryOnly == UNCHANGED <<mgr, store, lastOp, passed, origin, frame, game, quiz, util>>

UseStartSession ==
    /\ Len(registry.events) < MaxSessionCalls
    /\ \E session_id \in SessionIds, player_name \in {<<"A", "n", "n">>, <<"S", "u", "e">>} :
           registry' = start_session(registry, session_id, player_name, GameMode)
    /\ RegistryOnly

UseEndSession ==
    /\ Len(registry.events) < MaxSessionCalls
    /\ \E session_id \in SessionIds, final_score \in {5, 50}, disk \in DiskOutcomes :
           registry' = end_session(registry, session_id, final_score,
                                   final_score >= WinScore, disk)
    /\ RegistryOnly

UseGetOrCreatePlayer ==
    /\ \E name \in PlayerNames, disk \in DiskOutcomes :
       \E player_id \in PlayerIds \ {registry.players[k].player_id : k \in 1..Len(registry.players)} :
           registry' = get_or_create_player(registry, name, player_id, disk)
    /\ RegistryOnly

NextRegistry == UseGetOrCreatePlayer

SpecRegistry == Init /\ [][NextRegistry]_vars

NextSessions == UseStartSession \/ UseEndSession

SpecSessions == Init /\ [][NextSessions]_vars

(***************************************************************************)
(* Properties of the sessions                                               *)
(***************************************************************************)
\* the calls made so far that name a session id
EventsOf(session_id) ==
    SelectSeq(registry.events, LAMBDA e : e.session_id = session_id)

LastEventStarts(session_id) ==
    LET es == EventsOf(session_id)
    IN  es # << >> /\ es[Len(es)].op = "start_session"

StoredTimes(session_id, start_time) ==
    Cardinality({k \in 1..Len(registry.stored) :
                    /\ registry.stored[k].session_id = session_id
                    /\ registry.stored[k].start_time = start_time})

SessionsKept ==
    /\ \A session_id \in SessionIds :
           session_id \in ActiveIds(registry) <=> LastEventStarts(session_id)
    /\ \A session_id \in SessionIds : \A start_time \in 0..registry.now :
           StoredTimes(session_id, start_time) <= 1

EndOfUnknownSession ==
    \A session_id \in SessionIds :
        /\ registry'.call.op = "end_session"
        /\ registry'.call.session_id = session_id
        /\ Len(registry'.events) = Len(registry.events) + 1
        /\ session_id \notin ActiveIds(registry)
        => /\ registry'.call.result = << >>
           /\ registry'.active = registry.active
           /\ registry'.stored = registry.stored

\* C36: a session id is active exactly from its start_session to its
\* end_session; end_session for an id that is not active returns None and
\* changes neither active_sessions nor the stored history, so a started
\* session is stored at most once.
C36_SessionActiveBetween ==
    [](SessionsKept) /\ [][EndOfUnknownSession]_vars

C36_Witness ==
    /\ Len(registry.events) = 4
    /\ registry.events[1] = [op |-> "start_session", session_id |-> "s1"]
    /\ registry.events[2] = [op |-> "end_session", session_id |-> "s1"]
    /\ registry.events[3] = [op |-> "end_session", session_id |-> "s1"]
    /\ registry.events[4] = [op |-> "start_session", session_id |-> "s1"]
    /\ registry.call.op = "start_session"
    /\ Len(registry.stored) = 1
    /\ "s1" \in ActiveIds(registry)

(***************************************************************************)
(* Properties of the player registry                                        *)
(***************************************************************************)
SameIgnoringCase(a, b) == lower(a) = lower(b)

Profiles == {registry.players[k] : k \in 1..Len(registry.players)}

NoSecondProfile ==
    \A name \in PlayerNames :
        /\ registry'.call.op = "get_or_create_player"
        /\ registry'.call.name = name
        /\ \E p \in Profiles : SameIgnoringCase(p.name, name)
        => /\ registry'.call.result \in Profiles
           /\ SameIgnoringCase(registry'.call.result.name, name)
           /\ registry'.players = registry.players

NamesDistinct ==
    \A k, j \in 1..Len(registry.players) :
        SameIgnoringCase(registry.players[k].name, registry.players[j].name) => k = j

\* C37: get_or_create_player for a name that equals an existing profile's
\* name ignoring case returns that profile and leaves the players unchanged;
\* from an empty registry no two profiles have names equal ignoring case.
C37_OneProfilePerName ==
    [](NamesDistinct) /\ [][NoSecondProfile]_vars

C37_Witness ==
    /\ Len(registry.players) = 2
    /\ registry.players[1].name = <<"A", "n", "n">>
    /\ registry.players[2].name = <<"s", "U", "e">>
    /\ registry.call.name = <<"A", "N", "N">>
    /\ registry.call.result = registry.players[1]

(***************************************************************************)
(* src/utils/context.py: GameSession and game_session                       *)
(***************************************************************************)
\* the with-blocks run one after another
MaxBlocks == 3

\* how the body of a with-block is left: it runs to its end, returns early,
\* or raises
BodyExits ==
    { "end", "return", "InvalidInputException", "GameExitException", "ValueError",
      "KeyboardInterrupt", "CancelledError" }

\* the exceptions of Python that derive from BaseException but not from
\* Exception
NotExceptions == {"KeyboardInterrupt", "CancelledError", "SystemExit", "GeneratorExit"}

IsRaise(exit) == exit \notin {"end", "return"}
IsException(exit) == IsRaise(exit) /\ exit \notin NotExceptions

\* GameSession.__init__
NewGameSession(session_name) ==
    [ session_name |-> session_name,
      start_time   |-> << >>,
      end_time     |-> << >>,
      session_data |-> << >>,
      errors       |-> << >>,
      exits        |-> 0 ]

\* GameSession.__enter__ at time now
enter(session, now) ==
    [session EXCEPT
        !.start_time   = <<now>>,
        !.session_data = <<[ start_time |-> now, status |-> "active" ]>>]

\* GameSession.__exit__ at time now: exc_type is << >> for None; the result
\* False of the method means that no exception is suppressed
exit(session, exc_type, now) ==
    LET errors == IF exc_type = << >>
                  THEN session.errors
                  ELSE Append(session.errors, exc_type[1])
    IN  [session EXCEPT
            !.end_time     = <<now>>,
            !.errors       = errors,
            !.exits        = session.exits + 1,
            !.session_data =
                <<[ start_time   |-> session.start_time[1],
                    end_time     |-> now,
                    duration     |-> now - session.start_time[1],
                    status       |-> IF exc_type = << >> THEN "completed" ELSE "error",
                    errors_count |-> Len(errors) ]>>]

\* the generator of game_session after its yield: the except Exception branch
\* with its raise, the else branch, or neither when what the body raised is no
\* Exception
game_session_after(session, body_exit, now) ==
    IF IsException(body_exit)
    THEN [session |-> exit(session, <<body_exit>>, now), raised |-> body_exit]
    ELSE IF ~IsRaise(body_exit)
    THEN [session |-> exit(session, << >>, now), raised |-> "none"]
    ELSE [session |-> session, raised |-> body_exit]

Block(n) == util.blocks[n]
LastBlock == Block(Len(util.blocks))
InBlock == util.blocks # << >> /\ LastBlock.body = "running"

UtilOnly == UNCHANGED <<mgr, store, lastOp, passed, origin, frame, game, quiz, registry>>

\* with game_session(f"round-{n}") as session: the generator runs to its yield
EnterBlock ==
    /\ ~InBlock
    /\ Len(util.blocks) < MaxBlocks
    /\ LET session == enter(NewGameSession(Len(util.blocks) + 1), util.now)
       IN  util' = [util EXCEPT
                       !.blocks = Append(@, [ session |-> session, body |-> "running",
                                              raised |-> "none" ]),
                       !.now    = @ + 1]
    /\ UtilOnly

\* the body is left and the generator is resumed, or thrown into
LeaveBlock(body_exit) ==
    /\ InBlock
    /\ util' = [util EXCEPT
                   !.blocks[Len(util.blocks)] =
                       game_session_after(LastBlock.session, body_exit, util.now)
                           @@ [body |-> body_exit],
                   !.now = @ + 1]
    /\ UtilOnly

NextBlocks == EnterBlock \/ \E body_exit \in BodyExits : LeaveBlock(body_exit)

SpecBlocks == Init /\ [][NextBlocks]_vars

(***************************************************************************)
(* Properties of the game_session blocks                                    *)
(***************************************************************************)
BookkeepingDone(b) ==
    /\ b.session.exits = 1
    /\ b.session.end_time # << >>
    /\ b.session.session_data[1].status = (IF IsRaise(b.body) THEN "error" ELSE "completed")
    /\ b.session.session_data[1].duration = b.session.end_time[1] - b.session.start_time[1]

\* C38: every game_session block that was left has run its end bookkeeping
\* exactly once (end_time and duration recorded, status 'completed' or
\* 'error'), whatever way the body was left, and raises what the body raised.
C38_BookkeepingOnEveryExit ==
    \A n \in 1..Len(util.blocks) :
        Block(n).body # "running" =>
            /\ BookkeepingDone(Block(n))
            /\ Block(n).raised = (IF IsRaise(Block(n).body) THEN Block(n).body ELSE "none")

(***************************************************************************)
(* src/utils/decorators.py: retry                                           *)
(***************************************************************************)
MaxAttempts == 3

\* the tuples given as exceptions=, and what an invocation of the wrapped
\* function may do: return, or raise an instance of one of these classes
ExceptionTuples == { {"Exception"}, {"OSError"}, {"OSError", "ValueError"} }
RaisedClasses == {"ConnectionError", "ValueError", "KeyboardInterrupt"}

\* the class of an exception and its base classes
Bases(class) ==
    CASE class = "ConnectionError"   -> {"ConnectionError", "OSError", "Exception", "BaseException"}
      [] class = "ValueError"        -> {"ValueError", "Exception", "BaseException"}
      [] class = "TypeError"         -> {"TypeError", "Exception", "BaseException"}
      [] class = "KeyboardInterrupt" -> {"KeyboardInterrupt", "BaseException"}

\* an except clause that catches whatever is raised
CaughtAlways(class, exceptions) == Bases(class) # {}

\* except exceptions as e
Caught(class, exceptions) == Bases(class) \cap exceptions # {}

\* wrapper(*args) up to its loop; range(0) is empty, and the raise of
\* last_exception = None after the loop is a TypeError
retry_call(max_attempts, exceptions) ==
    [ pc             |-> IF max_attempts > 0 THEN "running" ELSE "raised",
      max_attempts   |-> max_attempts,
      exceptions     |-> exceptions,
      attempt        |-> 0,
      invocations    |-> << >>,
      last_exception |-> << >>,
      result         |-> << >>,
      raised         |-> IF max_attempts > 0 THEN << >>
                         ELSE <<[class |-> "TypeError", invocation |-> 0]>> ]

\* one turn of the loop: func is invoked and returns or raises
retry_attempt(c, outcome) ==
    LET nth == Len(c.invocations) + 1
        done == [c EXCEPT !.invocations = Append(@, outcome)]
        e == [class |-> outcome.class, invocation |-> nth]
    IN  IF outcome.class = "none"
        THEN [done EXCEPT !.pc = "returned", !.result = <<[invocation |-> nth]>>]
        ELSE IF Caught(outcome.class, c.exceptions)
        THEN IF c.attempt = c.max_attempts - 1
             THEN [done EXCEPT !.pc = "raised", !.last_exception = <<e>>, !.raised = <<e>>]
             ELSE [done EXCEPT !.last_exception = <<e>>, !.attempt = @ + 1]
        ELSE [done EXCEPT !.pc = "raised", !.raised = <<e>>]

CallRetried ==
    /\ util.retry.pc # "running"
    /\ \E max_attempts \in 0..MaxAttempts, exceptions \in ExceptionTuples :
           util' = [util EXCEPT !.retry = retry_call(max_attempts, exceptions)]
    /\ UtilOnly

InvokeRetried ==
    /\ util.retry.pc = "running"
    /\ \E class \in RaisedClasses \cup {"none"} :
           util' = [util EXCEPT !.retry = retry_attempt(@, [class |-> class])]
    /\ UtilOnly

NextRetry == CallRetried \/ InvokeRetried

SpecRetry == Init /\ [][NextRetry]_vars

(***************************************************************************)
(* Properties of retry                                                      *)
(***************************************************************************)
Invocations == util.retry.invocations

Retried(k) ==
    /\ Invocations[k].class # "none"
    /\ \E class \in util.retry.exceptions : class \in Bases(Invocations[k].class)

\* C39: a call through retry(max_attempts=N, exceptions=E) invokes the
\* function at most N times; it returns the first successful result at once,
\* re-raises the last failure after N failed invocations, and lets an
\* exception outside E propagate at once.
C39_AtMostNInvocations ==
    util.retry.pc # "none" =>
        LET n == Len(Invocations)
        IN  /\ n <= util.retry.max_attempts
            /\ \A k \in 1..(n - 1) : Retried(k)
            /\ util.retry.pc = "running" =>
                   /\ n < util.retry.max_attempts
                   /\ \A k \in 1..n : Retried(k)
            /\ util.retry.pc = "returned" =>
                   /\ Invocations[n].class = "none"
                   /\ util.retry.result = <<[invocation |-> n]>>
            /\ util.retry.pc = "raised" /\ util.retry.max_attempts > 0 =>
                   /\ Invocations[n].class # "none"
                   /\ util.retry.raised = <<[class |-> Invocations[n].class, invocation |-> n]>>
                   /\ Retried(n) => n = util.retry.max_attempts
            /\ util.retry.max_attempts = 0 => n = 0 /\ util.retry.pc = "raised"

C39_Witness ==
    /\ util.retry.pc = "raised"
    /\ util.retry.max_attempts = 3
    /\ util.retry.exceptions = {"OSError", "ValueError"}
    /\ Len(Invocations) = 3
    /\ Invocations[1].class = "ValueError"
    /\ Invocations[3].class = "ConnectionError"

(***************************************************************************)
(* Properties of the seven-round game                                       *)
(***************************************************************************)
\* the game of test_full_game_simulation
SevenRounds ==
    << PyInt(10), PyInt(0 - 5), PyInt(10), PyInt(10), PyInt(0 - 5), PyInt(10), PyInt(10) >>

\* manager i was constructed without a stored record and has been given
\* exactly the seven rounds
PlayedSevenRounds(i) ==
    /\ Live(i) /\ origin[i] = "fresh"
    /\ DeltasOf(M(i).score_history) = SevenRounds

SevenRoundsCounted(i) ==
    /\ get_score(M(i)) = SumValues(SevenRounds)
    /\ M(i).round_count = 7
    /\ M(i).correct_answers = 5
    /\ M(i).wrong_answers = 2
    /\ InList("First Points", M(i).achievements)

====
